---------------------------- MODULE Spec2Model ----------------------------
(***************************************************************************)
(* Capture session orchestration of the MLRecorder add-on.                 *)
(*                                                                         *)
(*   addon/lib/mlrecorder/core.py     the binding over the native engine   *)
(*   addon/lib/mlrecorder/simple.py   runtime singleton, start and stop    *)
(*                                    functions, session handles           *)
(*   addon/globalPlugins/mlrecorder.py  GlobalPlugin: the four slots and   *)
(*                                    the scripts that toggle them         *)
(*                                                                         *)
(* The native engine is an opaque DLL.  Every call that returns a result   *)
(* code is free to succeed or to fail; a call that succeeds has its effect *)
(* on the engine's capture state, a call that fails has none.              *)
(*                                                                         *)
(* Python's None is the empty set for an Optional object (a slot, the      *)
(* runtime) and the string NoneV for an Optional[str].  A str shown to the *)
(* user is a tuple of one-character strings.                               *)
(***************************************************************************)
EXTENDS Integers, Sequences, FiniteSets, TLC

\* ------------------------------------------------------------- bounds
\* Largest process id the focus object or a library caller supplies.
MaxPid == 2
\* Longest input device listing the engine returns.
MaxDevices == 2
\* Threads calling the library concurrently.
MaxThreads == 2
\* MLRecorder objects constructed in one run.
MaxRuntimes == 2
\* Pieces a process-name hint is put together from.
MaxParts == 3
\* Largest magnitude of a result code the engine returns.
MaxCode == 2

\* ------------------------------------------------------------- values
NoneV == "None"
NoPid == 0 - 1
NoDev == "n/a"

\* Python truthiness of an Optional[str]: None and "" are falsy.
Truthy(s) == s # NoneV /\ s # ""

\* pid 0 is the engine's sentinel for system (desktop) audio.
EnginePids == 0..MaxPid
\* What api.getFocusObject() can yield for processID (0 when it has none).
FocusPids == (-1)..MaxPid
\* device_id of an InputDeviceInfo; "" when the engine gives no id.
DeviceIds == {"", "mic1"}
DeviceInfos == [device_id : DeviceIds, is_default : BOOLEAN]

SeqsUpTo(S, n) == UNION {[1..k -> S] : k \in 0..n}

DeviceListings == SeqsUpTo(DeviceInfos, MaxDevices)

\* ------------------------------------------------------- engine binding
\* One call through the binding: the operation, its arguments, and whether
\* the engine's result code was >= 0.
Call(op, pid, dev, mon, ok) ==
    [op |-> op, pid |-> pid, dev |-> dev, mon |-> mon, ok |-> ok]

\* The engine's state: initialized or not, the process ids it captures (0 is
\* system audio), the input devices it captures, mixed output on or off.
\* EngineOff is the engine before mlr_initialize and after mlr_shutdown.
EngineOff == [init |-> FALSE, caps |-> {}, mics |-> {}, mixed |-> FALSE]

initialize_call(ok) == Call("initialize", NoPid, NoDev, FALSE, ok)
shutdown_call == Call("shutdown", NoPid, NoDev, FALSE, TRUE)
list_input_devices_call(ok) == Call("list_input_devices", NoPid, NoDev, FALSE, ok)
start_capture_to_directory(pid, mon, ok) == Call("start_capture", pid, NoDev, mon, ok)
stop_capture(pid, ok) == Call("stop_capture", pid, NoDev, FALSE, ok)
start_microphone_capture_to_directory(dev, mon, ok) ==
    Call("start_microphone_capture", NoPid, dev, mon, ok)
stop_microphone_capture(dev, ok) == Call("stop_microphone_capture", NoPid, dev, FALSE, ok)
enable_mixed_recording_to_directory(ok) == Call("enable_mixed_recording", NoPid, NoDev, FALSE, ok)
\* mlr_disable_mixed_recording returns nothing: the binding cannot see it fail.
disable_mixed_recording == Call("disable_mixed_recording", NoPid, NoDev, FALSE, TRUE)

\* The engine after one call.
ApplyCall(e, c) ==
    IF ~c.ok THEN e
    ELSE CASE c.op = "initialize" -> [e EXCEPT !.init = TRUE]
           [] c.op = "shutdown" -> EngineOff
           [] c.op = "start_capture" ->
                [e EXCEPT !.caps = @ \cup {c.pid}]
           [] c.op = "stop_capture" ->
                [e EXCEPT !.caps = @ \ {c.pid}]
           [] c.op = "start_microphone_capture" ->
                [e EXCEPT !.mics = @ \cup {c.dev}]
           [] c.op = "stop_microphone_capture" ->
                [e EXCEPT !.mics = @ \ {c.dev}]
           [] c.op = "enable_mixed_recording" -> [e EXCEPT !.mixed = TRUE]
           [] c.op = "disable_mixed_recording" -> [e EXCEPT !.mixed = FALSE]
           [] OTHER -> e

\* Some stop call of cs came back with a negative result code.
StopFailedIn(cs) ==
    \E i \in DOMAIN cs : cs[i].op \in {"stop_capture", "stop_microphone_capture"} /\ ~cs[i].ok

RECURSIVE ApplyCalls(_, _)
ApplyCalls(e, cs) ==
    IF cs = <<>> THEN e ELSE ApplyCalls(ApplyCall(e, Head(cs)), Tail(cs))

\* ------------------------------------------------- result codes
\* Each binding method that gets a result code from the engine hands it to
\* _raise_if_error with "<function> failed" as context.  The MLRecorderError
\* raised is kept here by its parts: the text is
\* "{context} [{code}: {result_text}] {error_text}".
NoMessage == [context |-> "", code |-> 0, result_text |-> "", error_text |-> ""]

\* mlr_result_to_string
result_to_string(code) == IF code < 0 THEN "failure" ELSE "success"

\* _raise_if_error raising on every code but 0.
raise_if_error_NonZero(code, context, last_error) ==
    IF code = 0 THEN [raised |-> FALSE, message |-> NoMessage]
    ELSE [raised |-> TRUE,
          message |-> [context |-> context, code |-> code,
                       result_text |-> result_to_string(code), error_text |-> last_error]]

\* _raise_if_error, where last_error is what mlr_get_last_error returns at
\* the time it is called.
raise_if_error(code, context, last_error) ==
    IF code >= 0 THEN [raised |-> FALSE, message |-> NoMessage]
    ELSE [raised |-> TRUE,
          message |-> [context |-> context, code |-> code,
                       result_text |-> result_to_string(code), error_text |-> last_error]]

\* The binding's methods whose engine function returns a result code, and
\* those whose engine function returns nothing.
CodedCalls ==
    {"mlr_initialize", "mlr_list_processes", "mlr_list_input_devices",
     "mlr_start_capture_to_file", "mlr_start_capture_to_directory", "mlr_stop_capture",
     "mlr_is_capturing", "mlr_set_capture_volume", "mlr_get_active_session_count",
     "mlr_start_microphone_capture_to_file", "mlr_start_microphone_capture_to_directory",
     "mlr_stop_microphone_capture", "mlr_enable_mixed_recording_to_file",
     "mlr_enable_mixed_recording_to_directory", "mlr_is_mixed_recording_active"}
VoidCalls ==
    {"mlr_shutdown", "mlr_stop_all_captures", "mlr_stop_all_microphone_captures",
     "mlr_disable_mixed_recording"}

\* ------------------------------------------------------ runtime singleton
\* simple.initialize: outcome of loading the DLL (the MLRecorder constructor)
\* and of mlr_initialize.  The result's error is "ok" when nothing is raised.
AddonDll == "addon"
RuntimeOf(path) == {[dll_path |-> path]}

initialize(rt, dllPath, loadOk, initOk) ==
    IF rt = {}
    THEN IF ~loadOk
         THEN [runtime |-> {}, calls |-> <<>>, err |-> "load_dll"]
         ELSE [runtime |-> RuntimeOf(IF dllPath = NoneV THEN AddonDll ELSE dllPath),
               calls |-> <<initialize_call(initOk)>>,
               err |-> IF initOk THEN "ok" ELSE "initialize"]
    ELSE IF dllPath # NoneV /\ rt # RuntimeOf(dllPath)
         THEN [runtime |-> rt, calls |-> <<>>, err |-> "dll_mismatch"]
         ELSE [runtime |-> rt, calls |-> <<>>, err |-> "ok"]

shutdown(rt) ==
    IF rt # {}
    THEN [runtime |-> {}, calls |-> <<shutdown_call>>]
    ELSE [runtime |-> rt, calls |-> <<>>]


\* ------------------------------------------------------- session handles
RecorderSession(pid) == [kind |-> "recorder", process_id |-> pid, device_id |-> NoneV]
MicrophoneSession(dev) == [kind |-> "microphone", process_id |-> NoPid, device_id |-> dev]
\* device_id is the handle's microphone_device_id.
MixedRecorderSession(pid, dev) == [kind |-> "mixed", process_id |-> pid, device_id |-> dev]

\* The result of a library function: the runtime singleton afterwards, the
\* engine calls it issued in order, the error it raised ("ok" when it
\* returned) and the handle it returned, if any.
Result(rt, cs, err, h) == [runtime |-> rt, calls |-> cs, err |-> err, handle |-> h]

\* -------------------------------------------------------------- resolver
\* Index of the first device satisfying P, 0 when there is none.
FirstIndex(devices, P(_)) ==
    IF \E i \in 1..Len(devices) : P(devices[i])
    THEN CHOOSE i \in 1..Len(devices) :
            P(devices[i]) /\ \A j \in 1..(i - 1) : ~P(devices[j])
    ELSE 0

\* _resolve_microphone_device_id taking the first device listed whether or
\* not one is flagged default.
ResolveFromListing_FirstListed(devices, input_device_id) ==
    IF devices = <<>>
    THEN [err |-> "NoInputDevices", id |-> NoneV]
    ELSE IF Truthy(input_device_id)
         THEN LET i == FirstIndex(devices, LAMBDA d : d.device_id = input_device_id)
              IN  IF i # 0 THEN [err |-> "ok", id |-> devices[i].device_id]
                  ELSE [err |-> "DeviceNotFound", id |-> NoneV]
         ELSE [err |-> "ok", id |-> devices[1].device_id]

\* _resolve_microphone_device_id, after list_input_devices has returned
\* `devices`: the id chosen, or the error raised.
ResolveFromListing(devices, input_device_id) ==
    IF devices = <<>>
    THEN [err |-> "NoInputDevices", id |-> NoneV]
    ELSE IF Truthy(input_device_id)
         THEN LET i == FirstIndex(devices, LAMBDA d : d.device_id = input_device_id)
              IN  IF i # 0 THEN [err |-> "ok", id |-> devices[i].device_id]
                  ELSE [err |-> "DeviceNotFound", id |-> NoneV]
         ELSE LET i == FirstIndex(devices, LAMBDA d : d.is_default)
              IN  IF i # 0 THEN [err |-> "ok", id |-> devices[i].device_id]
                  ELSE [err |-> "ok", id |-> devices[1].device_id]

\* _resolve_microphone_device_id: the listing call, then the choice.
resolve_microphone_device_id(listOk, devices, input_device_id) ==
    IF ~listOk
    THEN [err |-> "list_input_devices", id |-> NoneV,
          calls |-> <<list_input_devices_call(FALSE)>>]
    ELSE LET r == ResolveFromListing(devices, input_device_id)
         IN  [err |-> r.err, id |-> r.id, calls |-> <<list_input_devices_call(TRUE)>>]

\* start_recorder trying the engine's start a second time when it fails.
start_recorder_Retry(rt, pid, o) ==
    LET i == initialize(rt, NoneV, o.load, o.init)
    IN  IF i.err # "ok" THEN Result(i.runtime, i.calls, i.err, {})
        ELSE IF ~o.prep THEN Result(i.runtime, i.calls, "prepare", {})
        ELSE IF ~o.src
             THEN Result(i.runtime,
                         i.calls \o <<start_capture_to_directory(pid, FALSE, FALSE),
                                      start_capture_to_directory(pid, FALSE, FALSE)>>,
                         "start_capture", {})
             ELSE Result(i.runtime,
                         i.calls \o <<start_capture_to_directory(pid, FALSE, TRUE)>>,
                         "ok", {RecorderSession(pid)})

\* ------------------------------------------------------- start functions
\* `o` holds the outcomes the environment decides during one library call:
\* load and init (DLL load and mlr_initialize, read only when no runtime
\* exists), prep (resolving the output path and the format), listOk and
\* devices (list_input_devices), and one result per engine call the function
\* can issue (src, mic, mix, stopMic, stopSrc).
start_recorder(rt, pid, o) ==
    LET i == initialize(rt, NoneV, o.load, o.init)
    IN  IF i.err # "ok" THEN Result(i.runtime, i.calls, i.err, {})
        ELSE IF ~o.prep THEN Result(i.runtime, i.calls, "prepare", {})
        ELSE IF ~o.src
             THEN Result(i.runtime,
                         i.calls \o <<start_capture_to_directory(pid, FALSE, FALSE)>>,
                         "start_capture", {})
             ELSE Result(i.runtime,
                         i.calls \o <<start_capture_to_directory(pid, FALSE, TRUE)>>,
                         "ok", {RecorderSession(pid)})

start_microphone_recorder(rt, input_device_id, o) ==
    LET i == initialize(rt, NoneV, o.load, o.init)
        r == resolve_microphone_device_id(o.listOk, o.devices, input_device_id)
    IN  IF i.err # "ok" THEN Result(i.runtime, i.calls, i.err, {})
        ELSE IF r.err # "ok" THEN Result(i.runtime, i.calls \o r.calls, r.err, {})
        ELSE IF ~o.prep THEN Result(i.runtime, i.calls \o r.calls, "prepare", {})
        ELSE IF ~o.mic
             THEN Result(i.runtime,
                         i.calls \o r.calls
                           \o <<start_microphone_capture_to_directory(r.id, FALSE, FALSE)>>,
                         "start_microphone_capture", {})
             ELSE Result(i.runtime,
                         i.calls \o r.calls
                           \o <<start_microphone_capture_to_directory(r.id, FALSE, TRUE)>>,
                         "ok", {MicrophoneSession(r.id)})

\* The try block enabling the mixed output right after the source capture.
MixedTry_EnableBeforeMicrophone(pid, include_microphone, r, o) ==
    LET c1 == start_capture_to_directory(pid, TRUE, o.src)
        c2 == start_microphone_capture_to_directory(r.id, TRUE, o.mic)
        c3 == enable_mixed_recording_to_directory(o.mix)
        upTo2 == IF include_microphone THEN <<c1>> \o r.calls \o <<c2>> ELSE <<c1>>
        F(cs, err, ps, ms, me, dev) ==
            [calls |-> cs, err |-> err, process_started |-> ps,
             microphone_started |-> ms, mixed_enabled |-> me,
             resolved_device_id |-> dev]
    IN  IF ~o.src THEN F(<<c1>>, "start_capture", FALSE, FALSE, FALSE, NoneV)
        ELSE IF include_microphone /\ r.err # "ok"
             THEN F(<<c1>> \o r.calls, r.err, TRUE, FALSE, FALSE, NoneV)
        ELSE IF include_microphone /\ ~o.mic
             THEN F(upTo2, "start_microphone_capture", TRUE, FALSE, FALSE, r.id)
        ELSE IF ~o.mix
             THEN F(upTo2 \o <<c3>>, "enable_mixed_recording", TRUE, include_microphone,
                    FALSE, IF include_microphone THEN r.id ELSE NoneV)
        ELSE F(IF include_microphone THEN <<c1, c3>> \o r.calls \o <<c2>> ELSE <<c1, c3>>,
               "ok", TRUE, include_microphone, TRUE,
               IF include_microphone THEN r.id ELSE NoneV)

\* start_mixed_recorder, the body of its try block, given what
\* _resolve_microphone_device_id does when it is reached (r): the calls issued
\* up to and including the first one that fails, the error that one raised,
\* and the locals the except block reads.
MixedTry(pid, include_microphone, r, o) ==
    LET c1 == start_capture_to_directory(pid, TRUE, o.src)
        c2 == start_microphone_capture_to_directory(r.id, TRUE, o.mic)
        c3 == enable_mixed_recording_to_directory(o.mix)
        upTo2 == IF include_microphone THEN <<c1>> \o r.calls \o <<c2>> ELSE <<c1>>
        F(cs, err, ps, ms, me, dev) ==
            [calls |-> cs, err |-> err, process_started |-> ps,
             microphone_started |-> ms, mixed_enabled |-> me,
             resolved_device_id |-> dev]
    IN  IF ~o.src THEN F(<<c1>>, "start_capture", FALSE, FALSE, FALSE, NoneV)
        ELSE IF include_microphone /\ r.err # "ok"
             THEN F(<<c1>> \o r.calls, r.err, TRUE, FALSE, FALSE, NoneV)
        ELSE IF include_microphone /\ ~o.mic
             THEN F(upTo2, "start_microphone_capture", TRUE, FALSE, FALSE, r.id)
        ELSE IF ~o.mix
             THEN F(upTo2 \o <<c3>>, "enable_mixed_recording", TRUE, include_microphone,
                    FALSE, IF include_microphone THEN r.id ELSE NoneV)
        ELSE F(upTo2 \o <<c3>>, "ok", TRUE, include_microphone, TRUE,
               IF include_microphone THEN r.id ELSE NoneV)

MixedForward(pid, include_microphone, input_device_id, o) ==
    MixedTry(pid, include_microphone,
             resolve_microphone_device_id(o.listOk, o.devices, input_device_id), o)

\* The except block without its last stop.
MixedRollback_NoSourceStop(pid, f, o) ==
    (IF f.mixed_enabled THEN <<disable_mixed_recording>> ELSE <<>>)
    \o (IF f.microphone_started /\ Truthy(f.resolved_device_id)
        THEN <<stop_microphone_capture(f.resolved_device_id, o.stopMic)>> ELSE <<>>)

\* The except block undoing in the order the steps were taken.
MixedRollback_SourceFirst(pid, f, o) ==
    (IF f.process_started THEN <<stop_capture(pid, o.stopSrc)>> ELSE <<>>)
    \o (IF f.microphone_started /\ Truthy(f.resolved_device_id)
        THEN <<stop_microphone_capture(f.resolved_device_id, o.stopMic)>> ELSE <<>>)
    \o (IF f.mixed_enabled THEN <<disable_mixed_recording>> ELSE <<>>)

\* start_mixed_recorder, its except block: the undo calls issued, in order.
\* Each stop sits in its own try/except, so a failing one stops nothing.
MixedRollback(pid, f, o) ==
    (IF f.mixed_enabled THEN <<disable_mixed_recording>> ELSE <<>>)
    \o (IF f.microphone_started /\ Truthy(f.resolved_device_id)
        THEN <<stop_microphone_capture(f.resolved_device_id, o.stopMic)>> ELSE <<>>)
    \o (IF f.process_started THEN <<stop_capture(pid, o.stopSrc)>> ELSE <<>>)

\* An except block whose stops are not guarded: the first stop that fails
\* raises in place of the error being handled.
MixedReraise_StopErrorEscapes(original, rollback) ==
    IF \E i \in DOMAIN rollback : ~rollback[i].ok
    THEN rollback[CHOOSE i \in DOMAIN rollback :
                    ~rollback[i].ok /\ \A j \in 1..(i - 1) : rollback[j].ok].op
    ELSE original

\* The bare `raise` that ends the except block: the error being handled.
MixedReraise(original, rollback) == original

\* start_mixed_recorder once initialize() has ended as i and the try block as f.
MixedOutcome(i, pid, f, o) ==
    IF i.err # "ok" THEN Result(i.runtime, i.calls, i.err, {})
    ELSE IF ~o.prep THEN Result(i.runtime, i.calls, "prepare", {})
    ELSE IF f.err # "ok"
         THEN Result(i.runtime, i.calls \o f.calls \o MixedRollback(pid, f, o),
                     MixedReraise(f.err, MixedRollback(pid, f, o)), {})
         ELSE Result(i.runtime, i.calls \o f.calls, "ok",
                     {MixedRecorderSession(pid, f.resolved_device_id)})

start_mixed_recorder(rt, pid, include_microphone, input_device_id, o) ==
    MixedOutcome(initialize(rt, NoneV, o.load, o.init), pid,
                 MixedForward(pid, include_microphone, input_device_id, o), o)

\* --------------------------------------------------------- session stops
\* RecorderSession.stop -> stop_recorder: the engine error is raised.
RecorderSessionStop(rt, h, o) ==
    LET i == initialize(rt, NoneV, o.load, o.init)
    IN  IF i.err # "ok" THEN Result(i.runtime, i.calls, i.err, {})
        ELSE Result(i.runtime, i.calls \o <<stop_capture(h.process_id, o.stopSrc)>>,
                    IF o.stopSrc THEN "ok" ELSE "stop_capture", {})

\* MicrophoneSession.stop -> stop_microphone: the engine error is raised.
MicrophoneSessionStop(rt, h, o) ==
    LET i == initialize(rt, NoneV, o.load, o.init)
    IN  IF i.err # "ok" THEN Result(i.runtime, i.calls, i.err, {})
        ELSE Result(i.runtime,
                    i.calls \o <<stop_microphone_capture(h.device_id, o.stopMic)>>,
                    IF o.stopMic THEN "ok" ELSE "stop_microphone_capture", {})

\* MixedRecorderSession.stop without the test of the handle's device id: a
\* handle with none has the engine's default microphone stopped.
MixedRecorderSessionStop_NoDeviceTest(rt, h, o) ==
    LET i == initialize(rt, NoneV, o.load, o.init)
    IN  IF i.err # "ok" THEN Result(i.runtime, i.calls, i.err, {})
        ELSE Result(i.runtime,
                    i.calls \o <<disable_mixed_recording,
                                 stop_microphone_capture(h.device_id, o.stopMic),
                                 stop_capture(h.process_id, o.stopSrc)>>,
                    "ok", {})

\* MixedRecorderSession.stop: both stops are attempted and their errors dropped.
MixedRecorderSessionStop(rt, h, o) ==
    LET i == initialize(rt, NoneV, o.load, o.init)
    IN  IF i.err # "ok" THEN Result(i.runtime, i.calls, i.err, {})
        ELSE Result(i.runtime,
                    i.calls \o <<disable_mixed_recording>>
                      \o (IF Truthy(h.device_id)
                          THEN <<stop_microphone_capture(h.device_id, o.stopMic)>>
                          ELSE <<>>)
                      \o <<stop_capture(h.process_id, o.stopSrc)>>,
                    "ok", {})

\* session.stop() for whichever handle a slot holds.
SessionStop(rt, h, o) ==
    CASE h.kind = "recorder" -> RecorderSessionStop(rt, h, o)
      [] h.kind = "microphone" -> MicrophoneSessionStop(rt, h, o)
      [] h.kind = "mixed" -> MixedRecorderSessionStop(rt, h, o)

\* --------------------------------------------------------- process labels
Lower(c) == CASE c = "A" -> "a" [] c = "E" -> "e" [] c = "X" -> "x" [] OTHER -> c

RECURSIVE LStrip(_)
LStrip(s) == IF s # <<>> /\ Head(s) = " " THEN LStrip(Tail(s)) ELSE s

RECURSIVE RStrip(_)
RStrip(s) == IF s # <<>> /\ s[Len(s)] = " " THEN RStrip(SubSeq(s, 1, Len(s) - 1)) ELSE s

\* str.strip()
Strip(s) == RStrip(LStrip(s))

DotExe == <<".", "e", "x", "e">>

\* name.lower().endswith(".exe")
EndsWithExe(s) ==
    /\ Len(s) >= 4
    /\ [i \in 1..4 |-> Lower(s[Len(s) - 4 + i])] = DotExe

\* _normalizeProcessLabel with a suffix test that tells upper from lower case.
normalizeProcessLabel_CaseSensitive(rawName) ==
    LET name == Strip(rawName)
    IN  IF name = <<>> THEN <<>>
        ELSE IF Len(name) >= 4 /\ SubSeq(name, Len(name) - 3, Len(name)) = DotExe
             THEN Strip(SubSeq(name, 1, Len(name) - 4))
        ELSE Strip(name)

normalizeProcessLabel(rawName) ==
    LET name == Strip(rawName)
    IN  IF name = <<>> THEN <<>>
        ELSE IF EndsWithExe(name) THEN Strip(SubSeq(name, 1, Len(name) - 4))
        ELSE Strip(name)

\* _("aplicación actual")
Placeholder == <<"aplicacion actual">>

\* Names the focus object reports (already stripped by _getFocusProcess).
AppNames == {<<>>, <<"a", ".", "e", "x", "e">>}

\* self._mlr.list_processes(only_active_audio=False): the package's
\* list_processes accepts dll_path alone, so the call raises TypeError before
\* it reaches initialize() or the engine.
package_list_processes == [err |-> "TypeError", calls |-> <<>>, procs |-> <<>>]

\* self._mlr.set_capture_volume(pid, volume): the package exports set_volume
\* and no set_capture_volume, so the attribute lookup raises AttributeError.
package_set_capture_volume == [err |-> "AttributeError", calls |-> <<>>]

\* _resolveProcessLabel without the try/except around list_processes.
resolveProcessLabel_ListingErrorEscapes(mlrSet, pid, fallbackName) ==
    LET name == normalizeProcessLabel(fallbackName)
        l == package_list_processes
        Named(proc) == proc.process_id = pid
                         /\ normalizeProcessLabel(proc.process_name) # <<>>
        i == FirstIndex(l.procs, Named)
    IN  IF name # <<>> THEN [label |-> name, calls |-> <<>>, listed |-> FALSE, err |-> "ok"]
        ELSE IF ~mlrSet THEN [label |-> Placeholder, calls |-> <<>>, listed |-> FALSE, err |-> "ok"]
        ELSE IF l.err # "ok"
             THEN [label |-> <<>>, calls |-> l.calls, listed |-> TRUE, err |-> l.err]
        ELSE [label |-> IF i # 0 THEN normalizeProcessLabel(l.procs[i].process_name)
                        ELSE Placeholder,
              calls |-> l.calls, listed |-> TRUE, err |-> "ok"]

\* _resolveProcessLabel: the label, the engine calls made to find it,
\* whether list_processes was called (listed) and the error raised, if any.
\* An exception under list_processes is swallowed and gives the placeholder.
resolveProcessLabel(mlrSet, pid, fallbackName) ==
    LET name == normalizeProcessLabel(fallbackName)
        l == package_list_processes
        Named(proc) == proc.process_id = pid
                         /\ normalizeProcessLabel(proc.process_name) # <<>>
        i == FirstIndex(l.procs, Named)
    IN  IF name # <<>> THEN [label |-> name, calls |-> <<>>, listed |-> FALSE, err |-> "ok"]
        ELSE IF ~mlrSet THEN [label |-> Placeholder, calls |-> <<>>, listed |-> FALSE, err |-> "ok"]
        ELSE IF l.err # "ok"
             THEN [label |-> Placeholder, calls |-> l.calls, listed |-> TRUE, err |-> "ok"]
        ELSE [label |-> IF i # 0 THEN normalizeProcessLabel(l.procs[i].process_name)
                        ELSE Placeholder,
              calls |-> l.calls, listed |-> TRUE, err |-> "ok"]

\* ------------------------------------------------------------- the state
VARIABLES
    mlr,                \* GlobalPlugin._mlr is not None
    runtime,            \* simple._runtime: {} or the one MLRecorder
    eng,                \* the native engine's own state
    stop_failed,        \* history: the engine has returned a failure from a stop call
    processSession,     \* GlobalPlugin._processSession: {} or {handle}
    microphoneSession,  \* GlobalPlugin._microphoneSession
    systemSession,      \* GlobalPlugin._systemSession
    mixedSession,       \* GlobalPlugin._mixedSession
    lastProcessPid,     \* GlobalPlugin._lastProcessPid: {} or {pid}
    lastProcessName,    \* GlobalPlugin._lastProcessName
    toggling,           \* GlobalPlugin.toggling: the command layer is active
    terminated,         \* GlobalPlugin.terminate has run
    held,               \* handles a direct caller of the library keeps
    threads,            \* each thread calling the library: where its call stands
    runtime_lock,       \* simple._runtime_lock: {} or {the thread inside it}
    created,            \* the MLRecorder objects constructed so far, in order
    args,               \* a resolver evaluated on its own: its arguments and result
    calls,              \* engine calls issued by the latest operation
    last                \* what the latest operation was and how it ended

vars == <<mlr, runtime, eng, stop_failed, processSession, microphoneSession, systemSession,
          mixedSession, lastProcessPid, lastProcessName, toggling, terminated,
          held, threads, runtime_lock, created, args, calls, last>>

\* What the plug-in's scripts and a single-threaded caller of the library
\* leave alone.
conc == <<threads, runtime_lock, created, args>>
\* What concurrent callers of the library leave alone: the plug-in's fields
\* and the record of the latest operation.
outside == <<mlr, processSession, microphoneSession, systemSession, mixedSession,
             lastProcessPid, lastProcessName, toggling, terminated, args, calls, last>>

\* Threads that call the library at the same time, and a thread between calls.
\* rt is the runtime its initialize() returned: its place in created, 0 before.
Threads == 1..MaxThreads
IdleThread == [op |-> "none", pc |-> "idle", pid |-> NoPid, rt |-> 0]

\* No resolver or binding call is under evaluation.
NoArgs ==
    [fn |-> "none", done |-> FALSE,
     listOk |-> TRUE, devices |-> <<>>, input_device_id |-> NoneV,
     mlrSet |-> FALSE, pid |-> NoPid, hint |-> <<>>,
     err |-> "ok", id |-> NoneV, label |-> <<>>, listed |-> FALSE,
     code |-> 0, stale |-> "", fresh |-> "", raised |-> FALSE, message |-> NoMessage]

\* The plug-in's fields, as one value the scripts transform.
Plugin ==
    [mlr |-> mlr, runtime |-> runtime, processSession |-> processSession,
     microphoneSession |-> microphoneSession, systemSession |-> systemSession,
     mixedSession |-> mixedSession, lastProcessPid |-> lastProcessPid,
     lastProcessName |-> lastProcessName]

Only(S) == CHOOSE x \in S : TRUE

\* What a script did: the plug-in afterwards, the engine calls it issued, the
\* message it spoke (outcome), the error that message carried, and for the
\* stop scripts the slots whose stop raised.
Done(p, cs, outcome, err) ==
    [p |-> p, calls |-> cs, outcome |-> outcome, err |-> err, failed |-> {}]

\* ------------------------------------------------------ GlobalPlugin
Envs == {"ok", "import_error", "dll_missing"}

\* _ensureRuntime.  env: whether the package imports and the DLL file exists.
ensureRuntime(p, env, loadOk, initOk) ==
    LET i == initialize(p.runtime, AddonDll, loadOk, initOk)
    IN  IF p.mlr THEN [ok |-> TRUE, p |-> p, calls |-> <<>>, err |-> "ok"]
        ELSE IF env # "ok" THEN [ok |-> FALSE, p |-> p, calls |-> <<>>, err |-> env]
        ELSE IF i.err # "ok"
             THEN [ok |-> FALSE, p |-> [p EXCEPT !.runtime = i.runtime],
                   calls |-> i.calls, err |-> i.err]
             ELSE [ok |-> TRUE, p |-> [p EXCEPT !.runtime = i.runtime, !.mlr = TRUE],
                   calls |-> i.calls, err |-> "ok"]

\* The stop branch of a toggle script and of script_stopActiveRecording:
\*     try: session.stop(); slot = None
\*     except Exception: speak the error
\* The slot afterwards.
SlotAfterStop(slot, stopErr) == IF stopErr = "ok" THEN {} ELSE slot

\* The exclusivity checks that precede a start.
\* (The first form of each pair below is the check with one test left out.)
ProcessStartBlocked_NoSystemTest(p) == p.mixedSession # {}
ProcessStartBlocked(p) == p.mixedSession # {} \/ p.systemSession # {}
MicrophoneStartBlocked_SourceBusy(p) ==
    p.mixedSession # {} \/ p.processSession # {} \/ p.systemSession # {}
MicrophoneStartBlocked_NoTest(p) == FALSE
MicrophoneStartBlocked(p) == p.mixedSession # {}
SystemStartBlocked(p) == p.processSession # {} \/ p.mixedSession # {}
MixedStartBlocked_NoProcessTest(p) ==
    p.microphoneSession # {} \/ p.systemSession # {}
MixedStartBlocked(p) ==
    p.processSession # {} \/ p.microphoneSession # {} \/ p.systemSession # {}

\* pid <= 0 after _getFocusProcess
InvalidPid(pid) == pid <= 0

\* "Apply volume" after a start that returned (started): the inner
\* try/except drops whatever the attempt (vol) raised.
ApplyVolume_Raises(started, vol) ==
    IF vol.err = "ok" THEN [started EXCEPT !.calls = @ \o vol.calls]
    ELSE [started EXCEPT !.calls = @ \o vol.calls,
                         !.outcome = "start_error", !.err = vol.err]
ApplyVolume(started, vol) == [started EXCEPT !.calls = @ \o vol.calls]

script_toggleFocusedProcessRecording(p, in) ==
    LET er  == ensureRuntime(p, in.rt.env, in.rt.load, in.rt.init)
        q   == er.p
        st  == SessionStop(q.runtime, Only(q.processSession), in.run.o)
        lab == resolveProcessLabel(q.mlr, in.pid, in.lab.appName)
        s   == start_recorder(q.runtime, in.pid, in.run.o)
    IN  IF ~er.ok THEN Done(q, er.calls, "no_runtime", er.err)
        ELSE IF q.processSession # {}
             THEN IF st.err = "ok"
                  THEN Done([q EXCEPT !.runtime = st.runtime, !.processSession = {},
                                      !.lastProcessPid = {}, !.lastProcessName = <<>>],
                            er.calls \o st.calls, "stopped", "ok")
                  ELSE Done([q EXCEPT !.runtime = st.runtime,
                                      !.processSession = SlotAfterStop(@, st.err)],
                            er.calls \o st.calls, "stop_error", st.err)
        ELSE IF ProcessStartBlocked(q) THEN Done(q, er.calls, "blocked", "ok")
        ELSE IF InvalidPid(in.pid) THEN Done(q, er.calls, "invalid_pid", "ok")
        ELSE IF ~in.run.dir THEN Done(q, er.calls \o lab.calls, "start_error", "output_dir")
        ELSE IF s.err # "ok"
             THEN Done([q EXCEPT !.runtime = s.runtime],
                       er.calls \o lab.calls \o s.calls, "start_error", s.err)
        ELSE ApplyVolume(
                 Done([q EXCEPT !.runtime = s.runtime, !.processSession = s.handle,
                                !.lastProcessPid = {in.pid}, !.lastProcessName = lab.label],
                      er.calls \o lab.calls \o s.calls, "started", "ok"),
                 package_set_capture_volume)

script_toggleMicrophoneRecording(p, in) ==
    LET er == ensureRuntime(p, in.rt.env, in.rt.load, in.rt.init)
        q  == er.p
        st == SessionStop(q.runtime, Only(q.microphoneSession), in.run.o)
        s  == start_microphone_recorder(q.runtime, NoneV, in.run.o)
    IN  IF ~er.ok THEN Done(q, er.calls, "no_runtime", er.err)
        ELSE IF MicrophoneStartBlocked(q) THEN Done(q, er.calls, "blocked", "ok")
        ELSE IF q.microphoneSession # {}
             THEN Done([q EXCEPT !.runtime = st.runtime,
                                 !.microphoneSession = SlotAfterStop(@, st.err)],
                       er.calls \o st.calls,
                       IF st.err = "ok" THEN "stopped" ELSE "stop_error", st.err)
        ELSE IF ~in.run.dir THEN Done(q, er.calls, "start_error", "output_dir")
        ELSE IF s.err # "ok"
             THEN Done([q EXCEPT !.runtime = s.runtime], er.calls \o s.calls,
                       "start_error", s.err)
        ELSE Done([q EXCEPT !.runtime = s.runtime, !.microphoneSession = s.handle],
                  er.calls \o s.calls, "started", "ok")

\* The system toggle with its exclusivity test made after the start: the
\* capture is started, found to collide, stopped again and the start refused.
script_toggleSystemRecording_TestAfterStart(p, in) ==
    LET er == ensureRuntime(p, in.rt.env, in.rt.load, in.rt.init)
        q  == er.p
        st == SessionStop(q.runtime, Only(q.systemSession), in.run.o)
        s  == start_recorder(q.runtime, 0, in.run.o)
    IN  IF ~er.ok THEN Done(q, er.calls, "no_runtime", er.err)
        ELSE IF q.systemSession # {}
             THEN Done([q EXCEPT !.runtime = st.runtime,
                                 !.systemSession = SlotAfterStop(@, st.err)],
                       er.calls \o st.calls,
                       IF st.err = "ok" THEN "stopped" ELSE "stop_error", st.err)
        ELSE IF ~in.run.dir THEN Done(q, er.calls, "start_error", "output_dir")
        ELSE IF s.err # "ok"
             THEN Done([q EXCEPT !.runtime = s.runtime], er.calls \o s.calls,
                       "start_error", s.err)
        ELSE IF SystemStartBlocked(q)
             THEN Done([q EXCEPT !.runtime = s.runtime],
                       er.calls \o s.calls \o <<stop_capture(0, TRUE)>>, "blocked", "ok")
        ELSE Done([q EXCEPT !.runtime = s.runtime, !.systemSession = s.handle],
                  er.calls \o s.calls, "started", "ok")

script_toggleSystemRecording(p, in) ==
    LET er == ensureRuntime(p, in.rt.env, in.rt.load, in.rt.init)
        q  == er.p
        st == SessionStop(q.runtime, Only(q.systemSession), in.run.o)
        s  == start_recorder(q.runtime, 0, in.run.o)
    IN  IF ~er.ok THEN Done(q, er.calls, "no_runtime", er.err)
        ELSE IF q.systemSession # {}
             THEN Done([q EXCEPT !.runtime = st.runtime,
                                 !.systemSession = SlotAfterStop(@, st.err)],
                       er.calls \o st.calls,
                       IF st.err = "ok" THEN "stopped" ELSE "stop_error", st.err)
        ELSE IF SystemStartBlocked(q) THEN Done(q, er.calls, "blocked", "ok")
        ELSE IF ~in.run.dir THEN Done(q, er.calls, "start_error", "output_dir")
        ELSE IF s.err # "ok"
             THEN Done([q EXCEPT !.runtime = s.runtime], er.calls \o s.calls,
                       "start_error", s.err)
        ELSE Done([q EXCEPT !.runtime = s.runtime, !.systemSession = s.handle],
                  er.calls \o s.calls, "started", "ok")

script_toggleMixedRecording(p, in) ==
    LET er  == ensureRuntime(p, in.rt.env, in.rt.load, in.rt.init)
        q   == er.p
        st  == SessionStop(q.runtime, Only(q.mixedSession), in.run.o)
        lab == resolveProcessLabel(q.mlr, in.pid, in.lab.appName)
        s   == start_mixed_recorder(q.runtime, in.pid, TRUE, NoneV, in.run.o)
    IN  IF ~er.ok THEN Done(q, er.calls, "no_runtime", er.err)
        ELSE IF MixedStartBlocked(q) THEN Done(q, er.calls, "blocked", "ok")
        ELSE IF q.mixedSession # {}
             THEN Done([q EXCEPT !.runtime = st.runtime,
                                 !.mixedSession = SlotAfterStop(@, st.err)],
                       er.calls \o st.calls,
                       IF st.err = "ok" THEN "stopped" ELSE "stop_error", st.err)
        ELSE IF InvalidPid(in.pid) THEN Done(q, er.calls, "invalid_pid", "ok")
        ELSE IF ~in.run.dir THEN Done(q, er.calls \o lab.calls, "start_error", "output_dir")
        ELSE IF s.err # "ok"
             THEN Done([q EXCEPT !.runtime = s.runtime],
                       er.calls \o lab.calls \o s.calls, "start_error", s.err)
        ELSE ApplyVolume(
                 Done([q EXCEPT !.runtime = s.runtime, !.mixedSession = s.handle],
                      er.calls \o lab.calls \o s.calls, "started", "ok"),
                 package_set_capture_volume)

script_toggleSystemMixedRecording(p, in) ==
    LET er == ensureRuntime(p, in.rt.env, in.rt.load, in.rt.init)
        q  == er.p
        st == SessionStop(q.runtime, Only(q.mixedSession), in.run.o)
        s  == start_mixed_recorder(q.runtime, 0, TRUE, NoneV, in.run.o)
    IN  IF ~er.ok THEN Done(q, er.calls, "no_runtime", er.err)
        ELSE IF MixedStartBlocked(q) THEN Done(q, er.calls, "blocked", "ok")
        ELSE IF q.mixedSession # {}
             THEN Done([q EXCEPT !.runtime = st.runtime,
                                 !.mixedSession = SlotAfterStop(@, st.err)],
                       er.calls \o st.calls,
                       IF st.err = "ok" THEN "stopped" ELSE "stop_error", st.err)
        ELSE IF ~in.run.dir THEN Done(q, er.calls, "start_error", "output_dir")
        ELSE IF s.err # "ok"
             THEN Done([q EXCEPT !.runtime = s.runtime], er.calls \o s.calls,
                       "start_error", s.err)
        ELSE Done([q EXCEPT !.runtime = s.runtime, !.mixedSession = s.handle],
                  er.calls \o s.calls, "started", "ok")

\* A stop that does not test the slot: on an empty slot it asks the engine to
\* stop the system capture all the same.
StopIfOccupied_NoTest(rt, slot, o) ==
    IF slot = {}
    THEN Result(rt, <<stop_capture(0, o.stopSrc)>>,
                IF o.stopSrc THEN "ok" ELSE "stop_capture", {})
    ELSE SessionStop(rt, Only(slot), o)

\* session.stop() when the slot is occupied; nothing otherwise ("none").
StopIfOccupied(rt, slot, o) ==
    IF slot = {} THEN Result(rt, <<>>, "none", {}) ELSE SessionStop(rt, Only(slot), o)

\* script_stopActiveRecording: system, process, mixed, microphone, each in its
\* own try/except that speaks the error.  It does not call _ensureRuntime.
script_stopActiveRecording(p, in) ==
    LET s1 == StopIfOccupied(p.runtime, p.systemSession, in.stops.oSystem)
        s2 == StopIfOccupied(s1.runtime, p.processSession, in.stops.oProcess)
        s3 == StopIfOccupied(s2.runtime, p.mixedSession, in.stops.oMixed)
        s4 == StopIfOccupied(s3.runtime, p.microphoneSession, in.stops.oMicrophone)
        After(slot, r) == IF r.err = "none" THEN slot ELSE SlotAfterStop(slot, r.err)
        Raised(r) == r.err \notin {"none", "ok"}
    IN  [p |-> [p EXCEPT !.runtime = s4.runtime,
                         !.systemSession = After(@, s1),
                         !.processSession = After(@, s2),
                         !.mixedSession = After(@, s3),
                         !.microphoneSession = After(@, s4)],
         calls |-> s1.calls \o s2.calls \o s3.calls \o s4.calls,
         outcome |-> IF \E r \in {s1, s2, s3, s4} : r.err = "ok"
                     THEN "stopped" ELSE "nothing_stopped",
         err |-> "ok",
         failed |-> {n \in {"system", "process", "mixed", "microphone"} :
                       \/ n = "system" /\ Raised(s1)
                       \/ n = "process" /\ Raised(s2)
                       \/ n = "mixed" /\ Raised(s3)
                       \/ n = "microphone" /\ Raised(s4)}]

\* _stopAllSessions clearing a slot only when its stop returned.
stopAllSessions_KeepsFailed(p, in) ==
    LET s1 == StopIfOccupied(p.runtime, p.systemSession, in.stops.oSystem)
        s2 == StopIfOccupied(s1.runtime, p.mixedSession, in.stops.oMixed)
        s3 == StopIfOccupied(s2.runtime, p.microphoneSession, in.stops.oMicrophone)
        s4 == StopIfOccupied(s3.runtime, p.processSession, in.stops.oProcess)
        After(slot, r) == IF r.err \in {"none", "ok"} THEN {} ELSE slot
    IN  Done([p EXCEPT !.runtime = s4.runtime,
                       !.systemSession = After(@, s1),
                       !.mixedSession = After(@, s2),
                       !.microphoneSession = After(@, s3),
                       !.processSession = After(@, s4),
                       !.lastProcessPid = IF p.processSession # {} THEN {} ELSE @,
                       !.lastProcessName = IF p.processSession # {} THEN <<>> ELSE @],
             s1.calls \o s2.calls \o s3.calls \o s4.calls, "all_stopped", "ok")

\* _stopAllSessions: system, mixed, microphone, process; every error is
\* swallowed and every slot cleared.
stopAllSessions(p, in) ==
    LET s1 == StopIfOccupied(p.runtime, p.systemSession, in.stops.oSystem)
        s2 == StopIfOccupied(s1.runtime, p.mixedSession, in.stops.oMixed)
        s3 == StopIfOccupied(s2.runtime, p.microphoneSession, in.stops.oMicrophone)
        s4 == StopIfOccupied(s3.runtime, p.processSession, in.stops.oProcess)
    IN  Done([p EXCEPT !.runtime = s4.runtime,
                       !.systemSession = {},
                       !.mixedSession = {},
                       !.microphoneSession = {},
                       !.processSession = {},
                       !.lastProcessPid = IF p.processSession # {} THEN {} ELSE @,
                       !.lastProcessName = IF p.processSession # {} THEN <<>> ELSE @],
             s1.calls \o s2.calls \o s3.calls \o s4.calls, "all_stopped", "ok")

script_stopAllRecordings(p, in) == stopAllSessions(p, in)

\* terminate shutting the engine down before it stops the sessions.
terminate_ShutdownFirst(p, in) ==
    LET sh == shutdown(p.runtime)
        a  == stopAllSessions([p EXCEPT !.runtime = sh.runtime], in)
    IN  IF p.mlr
        THEN Done([a.p EXCEPT !.mlr = FALSE], sh.calls \o a.calls, "terminated", "ok")
        ELSE stopAllSessions(p, in)

\* terminate: _stopAllSessions, then the package's shutdown() if it was loaded.
terminate(p, in) ==
    LET a  == stopAllSessions(p, in)
        sh == shutdown(a.p.runtime)
    IN  IF a.p.mlr
        THEN Done([a.p EXCEPT !.runtime = sh.runtime, !.mlr = FALSE],
                  a.calls \o sh.calls, "terminated", "ok")
        ELSE Done(a.p, a.calls, "terminated", "ok")

\* script_error: the message for a key the command layer does not bind.
script_error(p) ==
    Done([p EXCEPT !.mixedSession = {}, !.systemSession = {},
                   !.lastProcessPid = {}, !.lastProcessName = <<>>],
         <<>>, "invalid_key", "ok")

\* script_reportStatus naming the first occupied slot only.
ReportedStatus_FirstOnly(p) ==
    IF p.processSession # {} THEN {"process"}
    ELSE IF p.systemSession # {} THEN {"system"}
    ELSE IF p.mixedSession # {} THEN {"mixed"}
    ELSE IF p.microphoneSession # {} THEN {"microphone"}
    ELSE {}

\* script_reportStatus: the kinds it names.
ReportedStatus(p) ==
    {n \in {"process", "system", "mixed", "microphone"} :
        \/ n = "process" /\ p.processSession # {}
        \/ n = "system" /\ p.systemSession # {}
        \/ n = "mixed" /\ p.mixedSession # {}
        \/ n = "microphone" /\ p.microphoneSession # {}}

script_reportStatus(p) == Done(p, <<>>, "status", "ok")

\* ------------------------------------------------------------ the inputs
\* What the environment decides during one script: whether the package and
\* the DLL load (rt), the focus object's process id (pid) and name (lab),
\* the outcome of every further call (run)
\* and, for the scripts that stop several sessions, of each session's stop
\* (stops).  An input that a path never reads is left at its default, and of
\* the listings that resolve alike one is drawn.
DefaultO ==
    [load |-> TRUE, init |-> TRUE, prep |-> TRUE, src |-> TRUE, listOk |-> TRUE,
     devices |-> <<>>, mic |-> TRUE, mix |-> TRUE, stopMic |-> TRUE, stopSrc |-> TRUE]

DefaultRun == [dir |-> TRUE, o |-> DefaultO]

DefaultIn ==
    [rt |-> [env |-> "ok", load |-> TRUE, init |-> TRUE],
     pid |-> 1,
     lab |-> [appName |-> <<"a", ".", "e", "x", "e">>],
     run |-> DefaultRun,
     stops |-> [oSystem |-> DefaultO, oProcess |-> DefaultO, oMixed |-> DefaultO,
                oMicrophone |-> DefaultO]]

\* One element of S for each value F takes on S.
Representatives(S, F(_)) == {CHOOSE x \in S : F(x) = y : y \in {F(x) : x \in S}}

Expand(S, F(_)) == UNION {F(x) : x \in S}

\* Device listings, one for each way the resolver can end with no id asked for.
ListingReps == Representatives(DeviceListings, LAMBDA l : ResolveFromListing(l, NoneV))

\* What the focus object reports as its name.
LabelInputs == [appName : AppNames]

\* _ensureRuntime's environment.
RuntimeChoices ==
    {[env |-> "import_error", load |-> TRUE, init |-> TRUE],
     [env |-> "dll_missing", load |-> TRUE, init |-> TRUE],
     [env |-> "ok", load |-> FALSE, init |-> TRUE],
     [env |-> "ok", load |-> TRUE, init |-> FALSE],
     [env |-> "ok", load |-> TRUE, init |-> TRUE]}

\* A session's stop: each engine stop succeeds or fails.
StopChain ==
    {[DefaultRun EXCEPT !.o.stopMic = m, !.o.stopSrc = s] : m \in BOOLEAN, s \in BOOLEAN}

\* start_recorder behind a script: each way it can end.
RecorderChain ==
    {[DefaultRun EXCEPT !.dir = FALSE], [DefaultRun EXCEPT !.o.prep = FALSE],
     [DefaultRun EXCEPT !.o.src = FALSE], DefaultRun}

\* start_microphone_recorder behind a script.
MicrophoneChain ==
    {[DefaultRun EXCEPT !.dir = FALSE], [DefaultRun EXCEPT !.o.listOk = FALSE]}
    \cup Expand(ListingReps, LAMBDA l :
            {[DefaultRun EXCEPT !.o.devices = l, !.o.prep = FALSE],
             [DefaultRun EXCEPT !.o.devices = l, !.o.mic = FALSE],
             [DefaultRun EXCEPT !.o.devices = l]})

\* start_mixed_recorder behind a script, its rollback included.
MixedChain ==
    {[DefaultRun EXCEPT !.dir = FALSE], [DefaultRun EXCEPT !.o.prep = FALSE],
     [DefaultRun EXCEPT !.o.src = FALSE]}
    \cup Expand(BOOLEAN, LAMBDA s :
            {[DefaultRun EXCEPT !.o.listOk = FALSE, !.o.stopSrc = s]}
            \cup Expand(ListingReps, LAMBDA l :
                    {[DefaultRun EXCEPT !.o.devices = l, !.o.mic = FALSE, !.o.stopSrc = s],
                     [DefaultRun EXCEPT !.o.devices = l]}
                    \cup {[DefaultRun EXCEPT !.o.devices = l, !.o.mix = FALSE,
                                             !.o.stopMic = m, !.o.stopSrc = s]
                            : m \in BOOLEAN}))

\* The stops of script_stopActiveRecording, _stopAllSessions and terminate.
AllStopChoices ==
    {[oSystem |-> [DefaultO EXCEPT !.stopSrc = s[1]],
      oProcess |-> [DefaultO EXCEPT !.stopSrc = s[2]],
      oMixed |-> [DefaultO EXCEPT !.stopSrc = s[3], !.stopMic = s[4]],
      oMicrophone |-> [DefaultO EXCEPT !.stopMic = s[5]]]
        : s \in [1..5 -> BOOLEAN]}

\* ------------------------------------------------------------ the actions
IdleLast ==
    [script |-> "idle", outcome |-> "none", err |-> "ok", failed |-> {},
     status |-> {}, pid |-> NoPid, include_microphone |-> FALSE,
     input_device_id |-> NoneV]

Idle == last = IdleLast

Start ==
    /\ mlr = FALSE
    /\ runtime = {}
    /\ eng = EngineOff
    /\ stop_failed = FALSE
    /\ processSession = {}
    /\ microphoneSession = {}
    /\ systemSession = {}
    /\ mixedSession = {}
    /\ lastProcessPid = {}
    /\ lastProcessName = <<>>
    /\ toggling = FALSE
    /\ terminated = FALSE
    /\ held = {}
    /\ threads = [t \in Threads |-> IdleThread]
    /\ runtime_lock = {}
    /\ created = <<>>
    /\ calls = <<>>
    /\ last = IdleLast

Init == Start /\ args = NoArgs

\* A script has run: its effect on the plug-in, the engine and the record of
\* the latest operation.
Commit(name, r, in) ==
    /\ mlr' = r.p.mlr
    /\ runtime' = r.p.runtime
    /\ eng' = ApplyCalls(eng, r.calls)
    /\ stop_failed' = (stop_failed \/ StopFailedIn(r.calls))
    /\ processSession' = r.p.processSession
    /\ microphoneSession' = r.p.microphoneSession
    /\ systemSession' = r.p.systemSession
    /\ mixedSession' = r.p.mixedSession
    /\ lastProcessPid' = r.p.lastProcessPid
    /\ lastProcessName' = r.p.lastProcessName
    /\ calls' = r.calls
    /\ last' = [IdleLast EXCEPT
                  !.script = name, !.outcome = r.outcome, !.err = r.err,
                  !.failed = r.failed,
                  !.status = IF name = "reportStatus" THEN ReportedStatus(r.p) ELSE {},
                  !.pid = in.pid]
    /\ UNCHANGED <<held, conc>>

\* A toggle script under every input its path reads.  A script reached
\* through the command layer leaves the layer (finish -> deactivateLayer); one
\* reached directly finds it off.
Toggle(name, script(_, _), Pids, Labels(_), Chain) ==
    /\ Idle
    /\ \E rt \in (IF mlr THEN {DefaultIn.rt} ELSE RuntimeChoices) :
          LET in0 == [DefaultIn EXCEPT !.rt = rt]
              r0  == script(Plugin, in0)
          IN  IF r0.outcome \in {"no_runtime", "blocked"}
              THEN Commit(name, r0, in0)
              ELSE IF r0.outcome = "stopped"
              THEN \E st \in StopChain :
                      Commit(name, script(Plugin, [in0 EXCEPT !.run = st]), in0)
              ELSE \E pid \in Pids :
                      LET in1 == [in0 EXCEPT !.pid = pid]
                          r1  == script(Plugin, in1)
                      IN  IF r1.outcome = "invalid_pid"
                          THEN Commit(name, r1, in1)
                          ELSE \E lab \in Labels(pid), run \in Chain :
                                  LET in2 == [in1 EXCEPT !.lab = lab, !.run = run]
                                  IN  Commit(name, script(Plugin, in2), in2)
    /\ toggling' = FALSE
    /\ UNCHANGED terminated

FocusLabels(pid) == LabelInputs
NoLabel(pid) == {DefaultIn.lab}

ToggleFocusedProcessRecording ==
    /\ ~terminated
    /\ Toggle("toggleFocusedProcessRecording", script_toggleFocusedProcessRecording,
           FocusPids, FocusLabels, RecorderChain)

ToggleMicrophoneRecording ==
    /\ ~terminated
    /\ Toggle("toggleMicrophoneRecording", script_toggleMicrophoneRecording,
           {DefaultIn.pid}, NoLabel, MicrophoneChain)

ToggleSystemRecording ==
    /\ ~terminated
    /\ Toggle("toggleSystemRecording", script_toggleSystemRecording,
           {DefaultIn.pid}, NoLabel, RecorderChain)

ToggleMixedRecording ==
    /\ ~terminated
    /\ Toggle("toggleMixedRecording", script_toggleMixedRecording,
           FocusPids, FocusLabels, MixedChain)

ToggleSystemMixedRecording ==
    /\ ~terminated
    /\ Toggle("toggleSystemMixedRecording", script_toggleSystemMixedRecording,
           {DefaultIn.pid}, NoLabel, MixedChain)

ReportStatus ==
    /\ ~terminated
    /\ Idle
    /\ Commit("reportStatus", script_reportStatus(Plugin), DefaultIn)
    /\ toggling' = FALSE
    /\ UNCHANGED terminated

StopActiveRecording ==
    /\ ~terminated
    /\ Idle
    /\ \E st \in AllStopChoices :
          LET in == [DefaultIn EXCEPT !.stops = st]
          IN  Commit("stopActiveRecording", script_stopActiveRecording(Plugin, in), in)
    /\ toggling' = FALSE
    /\ UNCHANGED terminated

StopAllRecordings ==
    /\ ~terminated
    /\ Idle
    /\ \E st \in AllStopChoices :
          LET in == [DefaultIn EXCEPT !.stops = st]
          IN  Commit("stopAllRecordings", script_stopAllRecordings(Plugin, in), in)
    /\ toggling' = FALSE
    /\ UNCHANGED terminated

\* script_commandLayer: enters the layer, or, pressed inside it, script_error.
CommandLayer ==
    /\ ~terminated
    /\ Idle
    /\ IF toggling
       THEN /\ Commit("commandLayer", script_error(Plugin), DefaultIn)
            /\ toggling' = FALSE
       ELSE /\ toggling' = TRUE
            /\ last' = [IdleLast EXCEPT !.script = "commandLayer", !.outcome = "layer_on"]
            /\ calls' = <<>>
            /\ UNCHANGED <<mlr, runtime, eng, stop_failed, processSession, microphoneSession,
                           systemSession, mixedSession, lastProcessPid,
                           lastProcessName, held, conc>>
    /\ UNCHANGED terminated

\* getScript inside the layer, for a key the layer does not bind.
InvalidKey ==
    /\ ~terminated
    /\ Idle
    /\ toggling
    /\ Commit("error", script_error(Plugin), DefaultIn)
    /\ toggling' = FALSE
    /\ UNCHANGED terminated

Terminate ==
    /\ ~terminated
    /\ Idle
    /\ \E st \in AllStopChoices :
          LET in == [DefaultIn EXCEPT !.stops = st]
          IN  Commit("terminate", terminate(Plugin, in), in)
    /\ terminated' = TRUE
    /\ UNCHANGED toggling

\* The operation has returned and its caller waits for the next gesture or
\* makes ready for the next call: the record of the latest operation is dropped.
AwaitGesture ==
    /\ ~Idle
    /\ last' = IdleLast
    /\ calls' = <<>>
    /\ UNCHANGED <<mlr, runtime, eng, stop_failed, processSession, microphoneSession,
                   systemSession, mixedSession, lastProcessPid, lastProcessName,
                   toggling, terminated, held, conc>>

Next ==
    \/ ToggleFocusedProcessRecording
    \/ ToggleMicrophoneRecording
    \/ ToggleSystemRecording
    \/ ToggleMixedRecording
    \/ ToggleSystemMixedRecording
    \/ ReportStatus
    \/ StopActiveRecording
    \/ StopAllRecordings
    \/ CommandLayer
    \/ InvalidKey
    \/ Terminate
    \/ AwaitGesture

Spec == Init /\ [][Next]_vars

\* ------------------------------------------------- the library, called directly
\* A single-threaded caller of addon/lib/mlrecorder itself, with every argument
\* the functions accept.  It keeps the handle its latest start returned.
OtherDll == "other"
\* input_device_id arguments: none, the listed ids, an id no listing holds.
Requests == {NoneV, "micX"} \cup DeviceIds

LibListingReps ==
    [req \in Requests |->
        Representatives(DeviceListings, LAMBDA l : ResolveFromListing(l, req))]

\* initialize() at the head of a library function, read while no runtime exists.
LibInitChain == IF runtime = {}
                THEN {[DefaultO EXCEPT !.load = FALSE], [DefaultO EXCEPT !.init = FALSE]}
                ELSE {}

LibRecorderChain ==
    LibInitChain \cup {[DefaultO EXCEPT !.prep = FALSE], [DefaultO EXCEPT !.src = FALSE], DefaultO}

LibMicrophoneChain(req) ==
    LibInitChain \cup {[DefaultO EXCEPT !.listOk = FALSE]}
    \cup Expand(LibListingReps[req], LAMBDA l :
            {[DefaultO EXCEPT !.devices = l, !.prep = FALSE],
             [DefaultO EXCEPT !.devices = l, !.mic = FALSE],
             [DefaultO EXCEPT !.devices = l]})

LibMixedChain(include_microphone, req) ==
    LibInitChain \cup {[DefaultO EXCEPT !.prep = FALSE], [DefaultO EXCEPT !.src = FALSE]}
    \cup Expand(BOOLEAN, LAMBDA s :
            IF ~include_microphone
            THEN {[DefaultO EXCEPT !.mix = FALSE, !.stopSrc = s], DefaultO}
            ELSE {[DefaultO EXCEPT !.listOk = FALSE, !.stopSrc = s]}
                 \cup Expand(LibListingReps[req], LAMBDA l :
                        {[DefaultO EXCEPT !.devices = l, !.mic = FALSE, !.stopSrc = s],
                         [DefaultO EXCEPT !.devices = l]}
                        \cup {[DefaultO EXCEPT !.devices = l, !.mix = FALSE,
                                               !.stopMic = m, !.stopSrc = s]
                                : m \in BOOLEAN}))

LibStopChain ==
    LibInitChain
    \cup {[DefaultO EXCEPT !.stopMic = m, !.stopSrc = s] : m \in BOOLEAN, s \in BOOLEAN}

\* A library function has returned or raised.
LibCommit(name, r, pid, include_microphone, req) ==
    /\ runtime' = r.runtime
    /\ eng' = ApplyCalls(eng, r.calls)
    /\ stop_failed' = (stop_failed \/ StopFailedIn(r.calls))
    /\ calls' = r.calls
    /\ last' = [IdleLast EXCEPT
                  !.script = name,
                  !.outcome = IF r.err = "ok" THEN "returned" ELSE "raised",
                  !.err = r.err, !.pid = pid,
                  !.include_microphone = include_microphone,
                  !.input_device_id = req]
    /\ UNCHANGED <<mlr, processSession, microphoneSession, systemSession, mixedSession,
                   lastProcessPid, lastProcessName, toggling, terminated, conc>>

LibInitialize ==
    /\ Idle
    /\ \E path \in {NoneV, AddonDll, OtherDll}, io \in LibInitChain \cup {DefaultO} :
          LET i == initialize(runtime, path, io.load, io.init)
          IN  LibCommit("initialize", Result(i.runtime, i.calls, i.err, {}),
                        NoPid, FALSE, NoneV)
    /\ UNCHANGED held

LibShutdown ==
    /\ Idle
    /\ LET sh == shutdown(runtime)
       IN  LibCommit("shutdown", Result(sh.runtime, sh.calls, "ok", {}), NoPid, FALSE, NoneV)
    /\ UNCHANGED held

LibStartRecorder ==
    /\ Idle
    /\ \E pid \in EnginePids, o \in LibRecorderChain :
          LET r == start_recorder(runtime, pid, o)
          IN  /\ LibCommit("start_recorder", r, pid, FALSE, NoneV)
              /\ held' = IF r.err = "ok" THEN r.handle ELSE held

LibStartMicrophoneRecorder ==
    /\ Idle
    /\ \E req \in Requests :
          \E o \in LibMicrophoneChain(req) :
             LET r == start_microphone_recorder(runtime, req, o)
             IN  /\ LibCommit("start_microphone_recorder", r, NoPid, FALSE, req)
                 /\ held' = IF r.err = "ok" THEN r.handle ELSE held

LibStartMixedRecorder ==
    /\ Idle
    /\ \E pid \in EnginePids, inc \in BOOLEAN, req \in Requests :
          \E o \in LibMixedChain(inc, req) :
             LET r == start_mixed_recorder(runtime, pid, inc, req, o)
             IN  /\ LibCommit("start_mixed_recorder", r, pid, inc, req)
                 /\ held' = IF r.err = "ok" THEN r.handle ELSE held

\* session.stop() on the handle kept; the caller lets go of it once stop returns.
LibStopSession ==
    /\ Idle
    /\ held # {}
    /\ \E o \in LibStopChain :
          LET h == Only(held)
              r == SessionStop(runtime, h, o)
          IN  /\ LibCommit("stop_" \o h.kind, r, h.process_id, FALSE, h.device_id)
              /\ held' = IF r.err = "ok" THEN {} ELSE held

LibAwait == AwaitGesture

LibNext ==
    \/ LibInitialize
    \/ LibShutdown
    \/ LibStartRecorder
    \/ LibStartMicrophoneRecorder
    \/ LibStartMixedRecorder
    \/ LibStopSession
    \/ LibAwait

LibSpec == Init /\ [][LibNext]_vars

\* --------------------------------------- the library, called concurrently
\* Several threads call addon/lib/mlrecorder at once with its default
\* arguments.  A thread takes one step at a time: a statement run inside
\* _runtime_lock, one engine call, or returning to its caller, which then
\* records the handle it got (held) or lets go of the one it stopped.
\* Every function starts with initialize(); only initialize() and shutdown()
\* take the lock, and each leaves it as it returns or raises.  A call begins
\* when its thread enters the lock: a thread waiting for it has done nothing.
ThreadPids == {1}

At(t, op, pc) == threads[t].op = op /\ threads[t].pc = pc

Goto(t, pc) == threads' = [threads EXCEPT ![t].pc = pc]

\* The call raised or returned nothing to record: the thread is between calls.
Finish(t) == threads' = [threads EXCEPT ![t] = IdleThread]

\* The statement after "recorder = initialize()" in each function.
AfterInitialize(op) ==
    CASE op = "initialize" -> "return"
      [] op = "start_recorder" -> "start_capture"
      [] op = "stop_recorder" -> "stop_capture"
      [] op = "start_mixed_recorder" -> "mixed_source"

\* initialize() returns _runtime, the latest object constructed, and leaves the lock.
InitializeReturns(t) ==
    /\ threads' = [threads EXCEPT ![t].rt = Len(created'),
                                  ![t].pc = AfterInitialize(threads[t].op)]
    /\ runtime_lock' = {}

\* "with _runtime_lock" lets a thread in when no thread is inside.
LockFree_NoLock(t) == TRUE
LockFree(t) == runtime_lock = {}

CallInitialize ==
  /\ UNCHANGED outside
  /\ \E t \in Threads :
       /\ threads[t].pc = "idle"
       /\ LockFree(t)
       /\ runtime_lock' = {t}
       /\ threads' = [threads EXCEPT ![t] = [IdleThread EXCEPT !.op = "initialize", !.pc = "locked"]]
       /\ UNCHANGED <<runtime, eng, stop_failed, held, created>>

CallShutdown ==
  /\ UNCHANGED outside
  /\ \E t \in Threads :
       /\ threads[t].pc = "idle"
       /\ LockFree(t)
       /\ runtime_lock' = {t}
       /\ threads' = [threads EXCEPT ![t] = [IdleThread EXCEPT !.op = "shutdown", !.pc = "locked"]]
       /\ UNCHANGED <<runtime, eng, stop_failed, held, created>>

CallStartRecorder ==
  /\ UNCHANGED outside
  /\ \E t \in Threads, pid \in ThreadPids :
       /\ threads[t].pc = "idle"
       /\ LockFree(t)
       /\ runtime_lock' = {t}
       /\ threads' = [threads EXCEPT ![t] = [IdleThread EXCEPT !.op = "start_recorder",
                                                              !.pc = "locked", !.pid = pid]]
       /\ UNCHANGED <<runtime, eng, stop_failed, held, created>>

CallStartMixedRecorder ==
  /\ UNCHANGED outside
  /\ \E t \in Threads, pid \in ThreadPids :
       /\ threads[t].pc = "idle"
       /\ LockFree(t)
       /\ runtime_lock' = {t}
       /\ threads' = [threads EXCEPT ![t] = [IdleThread EXCEPT !.op = "start_mixed_recorder",
                                                              !.pc = "locked", !.pid = pid]]
       /\ UNCHANGED <<runtime, eng, stop_failed, held, created>>

\* RecorderSession.stop() on a handle some caller holds.
CallSessionStop ==
  /\ UNCHANGED outside
  /\ \E t \in Threads, h \in {x \in held : x.kind = "recorder"} :
       /\ threads[t].pc = "idle"
       /\ LockFree(t)
       /\ runtime_lock' = {t}
       /\ threads' = [threads EXCEPT ![t] =
                        [IdleThread EXCEPT !.op = "stop_recorder",
                                           !.pc = "locked", !.pid = h.process_id]]
       /\ UNCHANGED <<runtime, eng, stop_failed, held, created>>

\* initialize, inside the lock: no runtime yet, so one is constructed (the
\* constructor loads the DLL and may raise) and assigned to _runtime.
ConstructRuntime ==
  /\ UNCHANGED outside
  /\ \E t \in Threads, loadOk \in BOOLEAN :
       /\ threads[t].pc = "locked"
       /\ threads[t].op # "shutdown"
       /\ runtime = {}
       /\ IF loadOk
          THEN /\ Len(created) < MaxRuntimes
               /\ runtime' = RuntimeOf(AddonDll)
               /\ created' = Append(created, [inits |-> 0, shutdowns |-> 0])
               /\ Goto(t, "engine_init")
               /\ UNCHANGED runtime_lock
          ELSE /\ Finish(t)
               /\ runtime_lock' = {}
               /\ UNCHANGED <<runtime, created>>
       /\ UNCHANGED <<eng, stop_failed, held>>

\* _runtime.initialize(), still inside the lock; an error leaves _runtime set.
EngineInitialize ==
  /\ UNCHANGED outside
  /\ \E t \in Threads, ok \in BOOLEAN :
       /\ threads[t].pc = "engine_init"
       /\ eng' = ApplyCall(eng, initialize_call(ok))
       /\ UNCHANGED stop_failed
       /\ created' = [created EXCEPT ![Len(created)].inits = @ + 1]
       /\ IF ok THEN InitializeReturns(t)
                ELSE Finish(t) /\ runtime_lock' = {}
       /\ UNCHANGED <<runtime, held>>

\* initialize, inside the lock, when a runtime exists: it is returned.
ReuseRuntime ==
  /\ UNCHANGED outside
  /\ \E t \in Threads :
       /\ threads[t].pc = "locked"
       /\ threads[t].op # "shutdown"
       /\ runtime # {}
       /\ UNCHANGED <<runtime, eng, stop_failed, held, created>>
       /\ InitializeReturns(t)

\* shutdown, inside the lock.
ShutdownRuntime ==
  /\ UNCHANGED outside
  /\ \E t \in Threads :
       /\ At(t, "shutdown", "locked")
       /\ IF runtime # {}
          THEN /\ eng' = ApplyCall(eng, shutdown_call)
               /\ UNCHANGED stop_failed
               /\ created' = [created EXCEPT ![Len(created)].shutdowns = @ + 1]
               /\ runtime' = {}
          ELSE UNCHANGED <<runtime, eng, stop_failed, created>>
       /\ runtime_lock' = {}
       /\ Finish(t)
       /\ UNCHANGED held

\* start_recorder: recorder.start_capture_to_directory(...)
StartCapture ==
  /\ UNCHANGED outside
  /\ \E t \in Threads, ok \in BOOLEAN :
       /\ At(t, "start_recorder", "start_capture")
       /\ eng' = ApplyCall(eng, start_capture_to_directory(threads[t].pid, FALSE, ok))
       /\ UNCHANGED stop_failed
       /\ IF ok THEN Goto(t, "return") ELSE Finish(t)
       /\ UNCHANGED <<runtime, held, runtime_lock, created>>

\* stop_recorder: initialize().stop_capture(pid)
StopCapture ==
  /\ UNCHANGED outside
  /\ \E t \in Threads, ok \in BOOLEAN :
       /\ At(t, "stop_recorder", "stop_capture")
       /\ eng' = ApplyCall(eng, stop_capture(threads[t].pid, ok))
       /\ stop_failed' = (stop_failed \/ ~ok)
       /\ IF ok THEN Goto(t, "return") ELSE Finish(t)
       /\ UNCHANGED <<runtime, held, runtime_lock, created>>

\* start_mixed_recorder without a microphone, step 1: the monitor-only source.
MixedSource ==
  /\ UNCHANGED outside
  /\ \E t \in Threads, ok \in BOOLEAN :
       /\ At(t, "start_mixed_recorder", "mixed_source")
       /\ eng' = ApplyCall(eng, start_capture_to_directory(threads[t].pid, TRUE, ok))
       /\ UNCHANGED stop_failed
       /\ IF ok THEN Goto(t, "mixed_enable") ELSE Finish(t)
       /\ UNCHANGED <<runtime, held, runtime_lock, created>>

\* ... step 3: enable the mixed output; an error goes to the except block.
MixedEnable ==
  /\ UNCHANGED outside
  /\ \E t \in Threads, ok \in BOOLEAN :
       /\ At(t, "start_mixed_recorder", "mixed_enable")
       /\ eng' = ApplyCall(eng, enable_mixed_recording_to_directory(ok))
       /\ UNCHANGED stop_failed
       /\ Goto(t, IF ok THEN "return" ELSE "mixed_rollback")
       /\ UNCHANGED <<runtime, held, runtime_lock, created>>

\* ... the except block: the source is stopped and the error raised again.
MixedUndo ==
  /\ UNCHANGED outside
  /\ \E t \in Threads, ok \in BOOLEAN :
       /\ At(t, "start_mixed_recorder", "mixed_rollback")
       /\ eng' = ApplyCall(eng, stop_capture(threads[t].pid, ok))
       /\ stop_failed' = (stop_failed \/ ~ok)
       /\ Finish(t)
       /\ UNCHANGED <<runtime, held, runtime_lock, created>>

\* The function returns: a start's caller keeps the handle, a stop's caller
\* lets go of the one it stopped.
Return ==
  /\ UNCHANGED outside
  /\ \E t \in Threads :
       /\ threads[t].pc = "return"
       /\ held' = CASE threads[t].op = "start_recorder" ->
                         held \cup {RecorderSession(threads[t].pid)}
                    [] threads[t].op = "start_mixed_recorder" ->
                         held \cup {MixedRecorderSession(threads[t].pid, NoneV)}
                    [] threads[t].op = "stop_recorder" ->
                         held \ {RecorderSession(threads[t].pid)}
                    [] OTHER -> held
       /\ Finish(t)
       /\ UNCHANGED <<runtime, eng, stop_failed, runtime_lock, created>>

ConcNext ==
    \/ CallInitialize
    \/ CallShutdown
    \/ CallStartRecorder
    \/ CallStartMixedRecorder
    \/ CallSessionStop
    \/ ConstructRuntime
    \/ EngineInitialize
    \/ ReuseRuntime
    \/ ShutdownRuntime
    \/ StartCapture
    \/ StopCapture
    \/ MixedSource
    \/ MixedEnable
    \/ MixedUndo
    \/ Return

ConcSpec == Init /\ [][ConcNext]_vars

\* ------------------------------------------ the resolvers, on their own
\* _resolve_microphone_device_id and _resolveProcessLabel, each evaluated once
\* on arguments drawn from every listing, request and hint within the bounds.
ResolveArgs ==
    {[NoArgs EXCEPT !.fn = "resolve_microphone_device_id",
                    !.listOk = ok, !.devices = d, !.input_device_id = req]
       : ok \in BOOLEAN, d \in DeviceListings, req \in Requests}

\* Hints are strings put together from these pieces.
HintParts ==
    {<<" ">>, <<"a">>, <<".", "e">>, <<".", "e", "x", "e">>, <<".", "E", "x", "e">>}

RECURSIVE Flatten(_)
Flatten(parts) == IF parts = <<>> THEN <<>> ELSE Head(parts) \o Flatten(Tail(parts))

Hints == {Flatten(parts) : parts \in SeqsUpTo(HintParts, MaxParts)}

LabelArgs ==
    {[NoArgs EXCEPT !.fn = "resolveProcessLabel", !.mlrSet = m, !.pid = 1, !.hint = h]
       : m \in BOOLEAN, h \in Hints}

ResolversInit == Start /\ args \in ResolveArgs \cup LabelArgs

ApplyResolveMicrophone ==
    /\ args.fn = "resolve_microphone_device_id"
    /\ ~args.done
    /\ LET r == resolve_microphone_device_id(args.listOk, args.devices, args.input_device_id)
       IN  args' = [args EXCEPT !.done = TRUE, !.err = r.err, !.id = r.id]
    /\ UNCHANGED <<mlr, runtime, eng, stop_failed, processSession, microphoneSession, systemSession,
                   mixedSession, lastProcessPid, lastProcessName, toggling, terminated,
                   held, threads, runtime_lock, created, calls, last>>

ApplyResolveProcessLabel ==
    /\ args.fn = "resolveProcessLabel"
    /\ ~args.done
    /\ LET r == resolveProcessLabel(args.mlrSet, args.pid, args.hint)
       IN  args' = [args EXCEPT !.done = TRUE, !.label = r.label, !.listed = r.listed,
                                !.err = r.err]
    /\ UNCHANGED <<mlr, runtime, eng, stop_failed, processSession, microphoneSession, systemSession,
                   mixedSession, lastProcessPid, lastProcessName, toggling, terminated,
                   held, threads, runtime_lock, created, calls, last>>

ResolversNext ==
    \/ ApplyResolveMicrophone
    \/ ApplyResolveProcessLabel

ResolversSpec == ResolversInit /\ [][ResolversNext]_vars

\* ------------------------------------------- the binding, call by call
\* One method of MLRecorder called once: the engine function returns `code`
\* (when it returns anything) and leaves `fresh` as its last-error text, where
\* `stale` was before the call.
Codes == (0 - MaxCode)..MaxCode
ErrorTexts == {"", "device busy", "access denied"}

BindingArgs ==
    {[NoArgs EXCEPT !.fn = f, !.code = c, !.stale = st, !.fresh = fr]
       : f \in CodedCalls, c \in Codes, st \in ErrorTexts, fr \in ErrorTexts}
    \cup {[NoArgs EXCEPT !.fn = f, !.stale = st, !.fresh = fr]
            : f \in VoidCalls, st \in ErrorTexts, fr \in ErrorTexts}

BindingInit == Start /\ args \in BindingArgs

\* code = self._dll.<function>(...); self._raise_if_error(code, "<function> failed")
CodedCall ==
    /\ args.fn \in CodedCalls
    /\ ~args.done
    /\ LET r == raise_if_error(args.code, args.fn \o " failed", args.fresh)
       IN  args' = [args EXCEPT !.done = TRUE, !.raised = r.raised, !.message = r.message]
    /\ UNCHANGED <<mlr, runtime, eng, stop_failed, processSession, microphoneSession, systemSession,
                   mixedSession, lastProcessPid, lastProcessName, toggling, terminated,
                   held, threads, runtime_lock, created, calls, last>>

\* self._dll.<function>(): nothing comes back, so nothing is raised.
VoidCall ==
    /\ args.fn \in VoidCalls
    /\ ~args.done
    /\ args' = [args EXCEPT !.done = TRUE]
    /\ UNCHANGED <<mlr, runtime, eng, stop_failed, processSession, microphoneSession, systemSession,
                   mixedSession, lastProcessPid, lastProcessName, toggling, terminated,
                   held, threads, runtime_lock, created, calls, last>>

BindingNext ==
    \/ CodedCall
    \/ VoidCall

BindingSpec == BindingInit /\ [][BindingNext]_vars

\* ------------------------------------------- a start and at once its stop
SecondPress(r1, r2) == [r2 EXCEPT !.calls = r1.calls \o r2.calls]

\* The second press, made on the plug-in the first press (r1) left, when the
\* first press started a session.
StartThenStopCommit(name, r1, script(_, _), in2) ==
    /\ r1.outcome = "started"
    /\ Commit(name, SecondPress(r1, script(r1.p, in2)), in2)

\* The same gesture twice in a row: the toggle starts a session and, pressed
\* again before anything else happens, stops it.  The record of the latest
\* operation is that of the second press, with the calls of both.
StartThenStop(name, script(_, _), Pids, Labels(_), Chain) ==
    /\ Idle
    /\ \E rt \in (IF mlr THEN {DefaultIn.rt} ELSE RuntimeChoices), pid \in Pids :
          \E lab \in Labels(pid), run \in Chain, st \in StopChain :
             LET in1 == [DefaultIn EXCEPT !.rt = rt, !.pid = pid, !.lab = lab, !.run = run]
                 in2 == [in1 EXCEPT !.run = st]
             IN  StartThenStopCommit(name, script(Plugin, in1), script, in2)
    /\ toggling' = FALSE
    /\ UNCHANGED terminated

StartThenStopProcess ==
    /\ ~terminated
    /\ StartThenStop("startThenStopProcess", script_toggleFocusedProcessRecording,
                     FocusPids, FocusLabels, RecorderChain)

StartThenStopSystem ==
    /\ ~terminated
    /\ StartThenStop("startThenStopSystem", script_toggleSystemRecording,
                     {DefaultIn.pid}, NoLabel, RecorderChain)

StartThenStopMicrophone ==
    /\ ~terminated
    /\ StartThenStop("startThenStopMicrophone", script_toggleMicrophoneRecording,
                     {DefaultIn.pid}, NoLabel, MicrophoneChain)

RoundTripNext ==
    \/ Next
    \/ StartThenStopProcess
    \/ StartThenStopSystem
    \/ StartThenStopMicrophone

RoundTripSpec == Init /\ [][RoundTripNext]_vars

\* -------------------------------------------------------- the properties
\* C1: after any sequence of toggles, stop-active, stop-all and invalid keys,
\* with every engine call free to succeed or fail, at most one of the process,
\* system and mixed slots is occupied.
C1_OneSourceSlot ==
    /\ ~(processSession # {} /\ systemSession # {})
    /\ ~(processSession # {} /\ mixedSession # {})
    /\ ~(systemSession # {} /\ mixedSession # {})

\* C1's case: a process start was asked for while the system slot was occupied.
C1_Witness ==
    /\ last.script = "toggleFocusedProcessRecording"
    /\ last.outcome = "blocked"
    /\ systemSession # {}

\* C2: after any sequence of operations on the session table, the microphone
\* slot and the mixed slot are never both occupied.
C2_MicrophoneNotWithMixed == ~(microphoneSession # {} /\ mixedSession # {})

\* C2's case: a microphone start was asked for while the mixed slot was occupied.
C2_Witness ==
    /\ last.script = "toggleMicrophoneRecording"
    /\ last.outcome = "blocked"
    /\ mixedSession # {}

\* What the log of the latest operation holds.
StopOps == {"stop_capture", "stop_microphone_capture"}
UndoOps == StopOps \cup {"disable_mixed_recording"}
MixedStartRaised == last.script = "start_mixed_recorder" /\ last.outcome = "raised"
\* The errors of step 2: the listing, the resolution, the microphone start.
Step2Errors ==
    {"list_input_devices", "NoInputDevices", "DeviceNotFound", "start_microphone_capture"}

\* C3: when enabling mixed output (step 3) fails in start_mixed_recorder, on
\* an initialized engine that accepts every stop the rollback issues, no
\* monitor-only capture that the call started, source or microphone, is active
\* in the engine on return.
C3_RollbackComplete ==
    (/\ MixedStartRaised
     /\ eng.init
     /\ last.err = "enable_mixed_recording"
     /\ \A i \in DOMAIN calls : calls[i].op \in StopOps => calls[i].ok)
    => \A i \in DOMAIN calls :
          (calls[i].ok /\ calls[i].mon)
          => /\ calls[i].op = "start_capture" => calls[i].pid \notin eng.caps
             /\ calls[i].op = "start_microphone_capture" => calls[i].dev \notin eng.mics

\* C4: when step 2 of start_mixed_recorder fails after the source capture of
\* step 1 started, the last call before the error reaches the caller is the
\* stop of that source capture (which leaves the engine not capturing it when
\* the engine accepts the stop), and the call started no microphone capture.
C4_Step2FailureStopsSource ==
    (MixedStartRaised /\ last.err \in Step2Errors)
    => /\ calls # <<>>
       /\ calls[Len(calls)].op = "stop_capture"
       /\ calls[Len(calls)].pid = last.pid
       /\ calls[Len(calls)].ok => last.pid \notin eng.caps
       /\ \A i \in DOMAIN calls :
             ~(calls[i].op = "start_microphone_capture" /\ calls[i].ok)
       /\ \E i \in DOMAIN calls :
             /\ calls[i] = start_capture_to_directory(last.pid, TRUE, TRUE)
             /\ i < Len(calls)

\* C4's case: no input device is listed, and the source capture is stopped.
C4_Witness ==
    /\ MixedStartRaised
    /\ last.err = "NoInputDevices"
    /\ calls[Len(calls)] = stop_capture(last.pid, TRUE)
    /\ last.pid \notin eng.caps

\* C5: on a failing start_mixed_recorder every undo call follows, in the log,
\* the successful start it undoes; a microphone stop comes before the source
\* stop; and a failure of step 1 is followed by no undo call.
C5_UndoOnlyCompletedInReverse ==
    MixedStartRaised
    => /\ \A i \in DOMAIN calls :
             /\ calls[i].op = "stop_capture"
                  => \E j \in 1..(i - 1) :
                        calls[j] = start_capture_to_directory(calls[i].pid, TRUE, TRUE)
             /\ calls[i].op = "stop_microphone_capture"
                  => \E j \in 1..(i - 1) :
                        calls[j] = start_microphone_capture_to_directory(calls[i].dev, TRUE, TRUE)
             /\ calls[i].op = "disable_mixed_recording"
                  => \E j \in 1..(i - 1) : calls[j] = enable_mixed_recording_to_directory(TRUE)
             /\ calls[i].op \in UndoOps
                  => \A j \in (i + 1)..Len(calls) : calls[j].op \in UndoOps
       /\ \A i, j \in DOMAIN calls :
             (calls[i].op = "stop_microphone_capture" /\ calls[j].op = "stop_capture")
             => i < j
       /\ last.err = "start_capture"
             => \A i \in DOMAIN calls : calls[i].op \notin UndoOps

\* C5's case: step 3 failed with both captures started, and both are undone.
C5_Witness ==
    /\ MixedStartRaised
    /\ last.err = "enable_mixed_recording"
    /\ \E i, j \in DOMAIN calls :
          /\ calls[i].op = "stop_microphone_capture"
          /\ calls[j].op = "stop_capture"
          /\ i < j

\* C6: the error start_mixed_recorder raises is the error of the first call of
\* its try block that fails (or of the device resolution), never the error of
\* a rollback stop; and a rollback microphone stop that fails is still
\* followed by the source stop.
C6_OriginalErrorKept ==
    MixedStartRaised
    => /\ last.err \notin StopOps
       /\ \A i \in DOMAIN calls :
             (/\ ~calls[i].ok
              /\ calls[i].op \notin StopOps
              /\ \A j \in 1..(i - 1) : calls[j].ok)
             => last.err = calls[i].op
       /\ (\A i \in DOMAIN calls : calls[i].ok \/ calls[i].op \in StopOps)
             => last.err \in {"load_dll", "prepare", "NoInputDevices", "DeviceNotFound"}
       /\ \A i \in DOMAIN calls :
             (calls[i].op = "stop_microphone_capture" /\ ~calls[i].ok)
             => \E j \in (i + 1)..Len(calls) :
                   calls[j].op = "stop_capture" /\ calls[j].pid = last.pid

\* C6's case: step 3 failed, the rollback's microphone stop failed too, and
\* the source stop was still issued.
C6_Witness ==
    /\ MixedStartRaised
    /\ last.err = "enable_mixed_recording"
    /\ \E i \in DOMAIN calls : calls[i].op = "stop_microphone_capture" /\ ~calls[i].ok
    /\ calls[Len(calls)].op = "stop_capture"

MixedToggles == {"toggleMixedRecording", "toggleSystemMixedRecording"}

\* C7: a mixed toggle (process or system source) pressed while the process,
\* microphone or system slot is occupied is refused, issues no engine call,
\* and leaves all four slots (and the engine) as they were.
C7_MixedStartRejected ==
    [][(/\ last'.script \in MixedToggles
        /\ (processSession # {} \/ microphoneSession # {} \/ systemSession # {}))
       => /\ last'.outcome = "blocked"
          /\ calls' = <<>>
          /\ eng' = eng
          /\ processSession' = processSession
          /\ microphoneSession' = microphoneSession
          /\ systemSession' = systemSession
          /\ mixedSession' = mixedSession]_vars

\* C7's case: the system-source mixed toggle refused while the microphone
\* slot is occupied.
C7_Witness ==
    /\ last.script = "toggleSystemMixedRecording"
    /\ last.outcome = "blocked"
    /\ microphoneSession # {}
    /\ mixedSession = {}

\* C8: a stop of an occupied slot, by the slot's toggle or by stop-active,
\* whose engine stop fails (on an initialized engine) leaves the slot empty.
C8_FailedStopClearsSlot ==
    eng.init =>
    /\ (last.script = "toggleFocusedProcessRecording" /\ last.outcome = "stop_error")
          => processSession = {}
    /\ (last.script = "toggleSystemRecording" /\ last.outcome = "stop_error")
          => systemSession = {}
    /\ (last.script = "toggleMicrophoneRecording" /\ last.outcome = "stop_error")
          => microphoneSession = {}
    /\ (last.script \in MixedToggles /\ last.outcome = "stop_error")
          => mixedSession = {}
    /\ last.script = "stopActiveRecording"
          => /\ "process" \in last.failed => processSession = {}
             /\ "system" \in last.failed => systemSession = {}
             /\ "microphone" \in last.failed => microphoneSession = {}
             /\ "mixed" \in last.failed => mixedSession = {}

\* C9: a start refused for exclusivity issues no engine call of any kind,
\* engine initialization included: the engine and the runtime singleton are
\* as they were before the request.
C9_RejectedStartTouchesNoEngine ==
    [][last'.outcome = "blocked"
       => /\ calls' = <<>>
          /\ eng' = eng
          /\ runtime' = runtime
          /\ mlr' = mlr]_vars

\* C9's case: a system start refused while the process slot is occupied.
C9_Witness ==
    /\ last.script = "toggleSystemRecording"
    /\ last.outcome = "blocked"
    /\ processSession # {}
    /\ calls = <<>>

\* C10: a process start or a process-source mixed start whose pid is <= 0 is
\* refused before any engine call is issued, the very first request
\* included, and leaves all four slots as they were.
C10_InvalidPidBeforeAnyEngineCall ==
    [][(/\ last'.script \in {"toggleFocusedProcessRecording", "toggleMixedRecording"}
        /\ last'.outcome = "invalid_pid")
       => /\ last'.pid <= 0
          /\ calls' = <<>>
          /\ processSession' = processSession
          /\ microphoneSession' = microphoneSession
          /\ systemSession' = systemSession
          /\ mixedSession' = mixedSession]_vars

StopScripts == {"stopActiveRecording", "stopAllRecordings"}
HasCall(cs, op) == \E i \in DOMAIN cs : cs[i].op = op

\* C11: stop-active and stop-all issue no engine call for a slot that is
\* unoccupied and report no error for it; the unoccupied slot stays empty; and
\* when all four slots are unoccupied the table and the engine are unchanged.
C11_StopOfEmptySlotIsNoOp ==
    [][last'.script \in StopScripts
       => /\ processSession = {}
               => processSession' = {} /\ "process" \notin last'.failed
          /\ systemSession = {}
               => systemSession' = {} /\ "system" \notin last'.failed
          /\ microphoneSession = {}
               => microphoneSession' = {} /\ "microphone" \notin last'.failed
          /\ mixedSession = {}
               => /\ mixedSession' = {} /\ "mixed" \notin last'.failed
                  /\ ~HasCall(calls', "disable_mixed_recording")
          /\ (processSession = {} /\ systemSession = {} /\ mixedSession = {})
               => ~HasCall(calls', "stop_capture")
          /\ (microphoneSession = {} /\ mixedSession = {})
               => ~HasCall(calls', "stop_microphone_capture")
          /\ Len(calls') <= (IF processSession = {} THEN 0 ELSE 1)
                             + (IF systemSession = {} THEN 0 ELSE 1)
                             + (IF microphoneSession = {} THEN 0 ELSE 1)
                             + (IF mixedSession = {} THEN 0 ELSE 3)
          /\ (/\ processSession = {} /\ systemSession = {}
              /\ microphoneSession = {} /\ mixedSession = {})
               => /\ calls' = <<>>
                  /\ last'.err = "ok"
                  /\ UNCHANGED <<eng, runtime, mlr, processSession, systemSession,
                                 microphoneSession, mixedSession, lastProcessPid,
                                 lastProcessName>>]_vars

\* C11's case: stop-active pressed on a loaded runtime with every slot empty.
C11_Witness ==
    /\ last.script = "stopActiveRecording"
    /\ last.outcome = "nothing_stopped"
    /\ mlr
    /\ processSession = {} /\ systemSession = {}
    /\ microphoneSession = {} /\ mixedSession = {}
    /\ calls = <<>>

StartThenStops ==
    {"startThenStopProcess", "startThenStopSystem", "startThenStopMicrophone"}

\* C12: from every reachable table state in which the start of a process,
\* system or microphone session is accepted, a successful start followed at
\* once by its stop leaves each of the four slots occupied exactly when it
\* was occupied before the start.
C12_StartStopRoundTrip ==
    [][last'.script \in StartThenStops
       => /\ (processSession' = {}) <=> (processSession = {})
          /\ (systemSession' = {}) <=> (systemSession = {})
          /\ (microphoneSession' = {}) <=> (microphoneSession = {})
          /\ (mixedSession' = {}) <=> (mixedSession = {})]_vars

\* A start or stop that has made an engine call and has a further engine call
\* or its caller's table update still to make.
InEffect(t) ==
    \/ threads[t].pc \in {"mixed_enable", "mixed_rollback"}
    \/ threads[t].pc = "return" /\ threads[t].op # "initialize"

\* C13: start and stop operations are serialized: the engine calls and table
\* update of one invocation never fall between those of another, so no two
\* threads are at the same time part-way through a start or a stop.
C13_StartsAndStopsSerialized ==
    \A t1 \in Threads, t2 \in Threads :
       t1 # t2 => ~(InEffect(t1) /\ InEffect(t2))

\* The runtimes constructed and not yet shut down.
LiveRuntimes == {i \in DOMAIN created : created[i].shutdowns = 0}

OneRuntime ==
    /\ Cardinality(LiveRuntimes) <= 1
    /\ LiveRuntimes = IF runtime = {} THEN {} ELSE {Len(created)}
    /\ \A i \in DOMAIN created :
          /\ created[i].shutdowns <= 1
          /\ created[i].inits <= 1
          /\ created[i].inits = 0
               => i = Len(created) /\ \E t \in Threads : threads[t].pc = "engine_init"
    /\ \A t \in Threads :
          threads[t].rt # 0 /\ runtime # {} => threads[t].rt \in {Len(created)} \cup
                                                 (DOMAIN created \ LiveRuntimes)

\* C14: under every interleaving of threads calling initialize() (directly or
\* at the head of a start or stop) and shutdown(), at most one runtime exists
\* at a time; each runtime constructed has the engine's initialize invoked on
\* it exactly once and its shutdown at most once; a call of initialize()
\* returns the one runtime that exists; and shutdown() with no runtime makes
\* no engine call.
C14_SingleRuntime ==
    [][/\ OneRuntime'
       /\ \A t \in Threads :
             /\ threads'[t].rt # threads[t].rt /\ threads'[t].rt # 0
                  => LiveRuntimes' = {threads'[t].rt}
             /\ At(t, "shutdown", "locked") /\ threads'[t].pc = "idle"
                  => IF runtime = {}
                     THEN UNCHANGED <<eng, created, runtime>>
                     ELSE /\ created'[Len(created)].shutdowns = 1
                          /\ runtime' = {}]_vars

\* Two threads were in initialize() at once and both hold the first runtime.
C14_Witness ==
    \E t1 \in Threads, t2 \in Threads :
       /\ t1 # t2
       /\ threads[t1].rt = 1 /\ threads[t2].rt = 1
       /\ threads[t1].op = "initialize" /\ threads[t2].op = "initialize"
       /\ Len(created) = 1
       /\ created[1].inits = 1

\* C15: a microphone start is accepted whenever the mixed and microphone
\* slots are empty, whatever the process and system slots hold: the toggle
\* never answers that it is blocked, the other three slots stay as they
\* were, and when nothing fails the microphone slot is occupied next to the
\* process or system session already there.
C15_MicrophoneBesideSource ==
    [][(/\ last'.script = "toggleMicrophoneRecording"
        /\ mixedSession = {}
        /\ microphoneSession = {})
       => /\ last'.outcome \in {"started", "start_error", "no_runtime"}
          /\ last'.outcome = "no_runtime" => ~mlr'
          /\ last'.err = "ok" => last'.outcome = "started"
          /\ last'.outcome = "started" <=> microphoneSession' # {}
          /\ UNCHANGED <<processSession, systemSession, mixedSession>>]_vars

\* The microphone was just started beside a process session ...
C15_Witness ==
    /\ last.script = "toggleMicrophoneRecording"
    /\ last.outcome = "started"
    /\ processSession # {}
    /\ microphoneSession # {}

\* ... and beside a system session.
C15_WitnessSystem ==
    /\ last.script = "toggleMicrophoneRecording"
    /\ last.outcome = "started"
    /\ systemSession # {}
    /\ microphoneSession # {}

HasOkCall(cs, op) == \E i \in DOMAIN cs : cs[i].op = op /\ cs[i].ok

\* C16: when the library's start of a process session, or of a mixed session
\* with a process source, has succeeded and applying the capture volume then
\* fails, the toggle still reports the start (no error), issues no stop or
\* undo call, and its slot holds the new session of that process.
C16_VolumeFailureIsNotAStartFailure ==
    [][/\ (/\ last'.script = "toggleFocusedProcessRecording"
           /\ HasOkCall(calls', "start_capture")
           /\ package_set_capture_volume.err # "ok")
          => /\ last'.outcome = "started"
             /\ last'.err = "ok"
             /\ \A i \in DOMAIN calls' : calls'[i].op \notin UndoOps
             /\ processSession = {}
             /\ processSession' = {RecorderSession(last'.pid)}
       /\ (/\ last'.script = "toggleMixedRecording"
           /\ HasOkCall(calls', "enable_mixed_recording")
           /\ package_set_capture_volume.err # "ok")
          => /\ last'.outcome = "started"
             /\ last'.err = "ok"
             /\ \A i \in DOMAIN calls' : calls'[i].op \notin UndoOps
             /\ mixedSession = {}
             /\ mixedSession' # {}
             /\ \A h \in mixedSession' : h.kind = "mixed" /\ h.process_id = last'.pid]_vars

\* A mixed session with a process source was just started.
C16_Witness ==
    /\ last.script = "toggleMixedRecording"
    /\ last.outcome = "started"
    /\ HasOkCall(calls, "enable_mixed_recording")
    /\ package_set_capture_volume.err = "AttributeError"
    /\ mixedSession # {}

StartOps == {"start_capture", "start_microphone_capture"}
SingleToggles ==
    {"toggleFocusedProcessRecording", "toggleSystemRecording", "toggleMicrophoneRecording"}

\* C17: when the engine's start call fails in a process, system or
\* microphone start, the toggle reports that call's error, the failed call
\* is the only start call it issued (no retry), its slot is still empty and
\* the other three slots are as they were.
C17_FailedStartLeavesTable ==
    [][(/\ last'.script \in SingleToggles
        /\ \E i \in DOMAIN calls' : calls'[i].op \in StartOps /\ ~calls'[i].ok)
       => /\ last'.outcome = "start_error"
          /\ last'.err \in StartOps
          /\ Cardinality({i \in DOMAIN calls' : calls'[i].op \in StartOps}) = 1
          /\ \A i \in DOMAIN calls' :
                calls'[i].op \in StartOps => calls'[i].op = last'.err /\ ~calls'[i].ok
          /\ last'.script = "toggleFocusedProcessRecording" => processSession' = {}
          /\ last'.script = "toggleSystemRecording" => systemSession' = {}
          /\ last'.script = "toggleMicrophoneRecording" => microphoneSession' = {}
          /\ UNCHANGED <<processSession, systemSession, microphoneSession,
                         mixedSession>>]_vars

\* The microphone's start call failed while a process session was recording.
C17_Witness ==
    /\ last.script = "toggleMicrophoneRecording"
    /\ last.outcome = "start_error"
    /\ last.err = "start_microphone_capture"
    /\ processSession # {}
    /\ microphoneSession = {}

\* The devices of a listing, by position.
Listed(d) == 1..Len(d)

\* C18: with no requested id and a listing the engine returned, resolution
\* gives the id of the first device flagged default, or of the first device
\* listed when none is flagged, and fails with "no input devices" exactly
\* when the listing is empty.
C18_DefaultThenFirst ==
    (/\ args.fn = "resolve_microphone_device_id"
     /\ args.done
     /\ args.listOk
     /\ args.input_device_id = NoneV)
    => LET d == args.devices
       IN  /\ (d = <<>>) <=> (args.err = "NoInputDevices")
           /\ d # <<>> => args.err = "ok"
           /\ \A i \in Listed(d) :
                 (d[i].is_default /\ \A j \in 1..(i - 1) : ~d[j].is_default)
                   => args.id = d[i].device_id
           /\ (d # <<>> /\ \A i \in Listed(d) : ~d[i].is_default)
                 => args.id = d[1].device_id

\* The second of two devices is the default one and its id is returned.
C18_Witness ==
    /\ args.fn = "resolve_microphone_device_id"
    /\ args.done
    /\ args.listOk
    /\ args.input_device_id = NoneV
    /\ Len(args.devices) = 2
    /\ ~args.devices[1].is_default
    /\ args.devices[2].is_default
    /\ args.devices[1].device_id # args.devices[2].device_id
    /\ args.id = args.devices[2].device_id

\* C19: with a requested id given and a listing of at least one device,
\* resolution gives the requested id when a device with exactly that id is
\* listed and otherwise fails with "device not found"; it never gives the
\* default or first device in place of a requested id.
C19_RequestedOrNotFound ==
    (/\ args.fn = "resolve_microphone_device_id"
     /\ args.done
     /\ args.listOk
     /\ args.devices # <<>>
     /\ args.input_device_id # NoneV)
    => LET d == args.devices
       IN  IF \E i \in Listed(d) : d[i].device_id = args.input_device_id
           THEN args.err = "ok" /\ args.id = args.input_device_id
           ELSE args.err = "DeviceNotFound"

\* A string without the blanks around it.
Trimmed(s) ==
    LET solid == {i \in DOMAIN s : s[i] # " "}
    IN  IF solid = {} THEN <<>>
        ELSE SubSeq(s, CHOOSE i \in solid : \A j \in solid : i <= j,
                       CHOOSE i \in solid : \A j \in solid : i >= j)

HasExeSuffix(s) ==
    /\ Len(s) >= 4
    /\ s[Len(s) - 3] = "."
    /\ s[Len(s) - 2] \in {"e", "E"}
    /\ s[Len(s) - 1] \in {"x", "X"}
    /\ s[Len(s)] \in {"e", "E"}

\* The hint trimmed, with one trailing ".exe" in any case removed, trimmed.
WithoutExe(hint) ==
    LET t == Trimmed(hint)
    IN  IF HasExeSuffix(t) THEN Trimmed(SubSeq(t, 1, Len(t) - 4)) ELSE t

LabelResolved == args.fn = "resolveProcessLabel" /\ args.done

\* C20 as first stated: for every non-empty hint the label is the hint
\* trimmed and without one trailing ".exe", and list_processes is not called.
C20_EveryHintIsTheLabel ==
    (LabelResolved /\ args.hint # <<>>)
    => args.label = WithoutExe(args.hint) /\ ~args.listed

\* C20: for every non-empty hint of which something remains once it is
\* trimmed and one trailing ".exe" (in any case) is removed, the label is that
\* remainder and list_processes is not called; a non-empty hint of which
\* nothing remains (blanks, or ".exe" alone) is resolved exactly as the empty
\* hint is: through list_processes when the package is loaded, else to the
\* placeholder.
C20_HintIsTheLabelUnlessEmptied ==
    (LabelResolved /\ args.hint # <<>>)
    => IF WithoutExe(args.hint) # <<>>
       THEN args.label = WithoutExe(args.hint) /\ ~args.listed
       ELSE LET e == resolveProcessLabel(args.mlrSet, args.pid, <<>>)
            IN  /\ args.label = e.label
                /\ args.listed = e.listed
                /\ args.label # <<>>

\* The hint " .Exe" leaves nothing: list_processes is called and the
\* placeholder comes back.
C20_Witness ==
    /\ LabelResolved
    /\ args.hint = <<" ", ".", "E", "x", "e">>
    /\ args.mlrSet
    /\ args.listed
    /\ args.label = Placeholder

\* C21: process-label resolution never raises and never returns the empty
\* string: for every hint, with or without the package loaded and with
\* list_processes failing when it is called, the label is the hint's
\* normalized name or the generic placeholder.
C21_LabelNeverEmpty ==
    LabelResolved
    => /\ args.err = "ok"
       /\ args.label # <<>>
       /\ args.label \in {Placeholder, WithoutExe(args.hint)}
       /\ args.label = Placeholder <=> WithoutExe(args.hint) = <<>>

\* No hint, the package loaded: list_processes is called, fails, and the
\* placeholder comes back.
C21_Witness ==
    /\ LabelResolved
    /\ args.hint = <<>>
    /\ args.mlrSet
    /\ args.listed
    /\ args.err = "ok"
    /\ args.label = Placeholder

\* The engine calls of the latest library call after its initialize, if any.
AfterInit(cs) == IF cs # <<>> /\ cs[1].op = "initialize" THEN Tail(cs) ELSE cs

\* C22: a start_mixed_recorder with include_microphone that returns has
\* issued, in this order and nothing else, the monitor-only source capture
\* start, the device listing, the monitor-only microphone capture start and
\* the enabling of the mixed output, each succeeding; the handle returned
\* carries the source pid and the device id the microphone was started on.
C22_MixedStartOrder ==
    (/\ last.script = "start_mixed_recorder"
     /\ last.include_microphone
     /\ last.outcome = "returned")
    => LET cs == AfterInit(calls)
       IN  /\ Len(cs) = 4
           /\ cs[1] = start_capture_to_directory(last.pid, TRUE, TRUE)
           /\ cs[2] = list_input_devices_call(TRUE)
           /\ cs[3].op = "start_microphone_capture" /\ cs[3].mon /\ cs[3].ok
           /\ cs[4] = enable_mixed_recording_to_directory(TRUE)
           /\ Truthy(last.input_device_id) => cs[3].dev = last.input_device_id
           /\ held = {MixedRecorderSession(last.pid, cs[3].dev)}
           /\ eng.mixed /\ last.pid \in eng.caps /\ cs[3].dev \in eng.mics

\* A mixed session with the microphone was started on a requested device.
C22_Witness ==
    /\ last.script = "start_mixed_recorder"
    /\ last.include_microphone
    /\ last.outcome = "returned"
    /\ last.input_device_id = "mic1"
    /\ held = {MixedRecorderSession(last.pid, "mic1")}
    /\ Len(calls) = 5

C24_StatusIsPureRead ==
    [][last'.script = "reportStatus"
       => /\ calls' = <<>>
          /\ UNCHANGED <<eng, runtime, mlr, processSession, systemSession,
                         microphoneSession, mixedSession, lastProcessPid,
                         lastProcessName, held>>
          /\ "process" \in last'.status <=> processSession # {}
          /\ "system" \in last'.status <=> systemSession # {}
          /\ "mixed" \in last'.status <=> mixedSession # {}
          /\ "microphone" \in last'.status <=> microphoneSession # {}
          /\ last'.status \subseteq {"process", "system", "mixed", "microphone"}
          /\ last'.err = "ok"]_vars

\* The report made while a system recording and a microphone recording run.
C24_Witness ==
    /\ last.script = "reportStatus"
    /\ last.status = {"system", "microphone"}
    /\ systemSession # {}
    /\ microphoneSession # {}
    /\ processSession = {}
    /\ mixedSession = {}
    /\ calls = <<>>

\* How many calls of cs satisfy all of: operation op, process id in Pids, device in Devs.
Attempts(cs, op, Pids, Devs) ==
    Cardinality({i \in DOMAIN cs : cs[i].op = op /\ cs[i].pid \in Pids /\ cs[i].dev \in Devs})

\* How many of the slots S are occupied by a handle whose `field` is v.
Holding(S, field, v) == Cardinality({n \in DOMAIN S : S[n] # {} /\ Only(S[n])[field] = v})

\* C25: after stop-all the four slots are empty whatever the engine's stop
\* calls returned, and the stop of each occupied slot was attempted exactly
\* once: one stop_capture per occupied system, process and mixed slot with
\* that slot's process id, one stop_microphone_capture per occupied
\* microphone slot and per mixed slot holding a device id, one
\* disable_mixed_recording for an occupied mixed slot, and no other call.
C25_StopAllEmptiesEverySlot ==
    [][last'.script = "stopAllRecordings"
       => LET sources == [system |-> systemSession, process |-> processSession,
                          mixed |-> mixedSession]
              mics == [microphone |-> microphoneSession,
                       mixed |-> IF mixedSession # {}
                                    /\ Truthy(Only(mixedSession).device_id)
                                 THEN mixedSession ELSE {}]
          IN  /\ processSession' = {}
              /\ systemSession' = {}
              /\ microphoneSession' = {}
              /\ mixedSession' = {}
              /\ \A p \in EnginePids :
                    Attempts(calls', "stop_capture", {p}, {NoDev})
                      = Holding(sources, "process_id", p)
              /\ \A d \in DeviceIds :
                    Attempts(calls', "stop_microphone_capture", {NoPid}, {d})
                      = Holding(mics, "device_id", d)
              /\ Attempts(calls', "disable_mixed_recording", {NoPid}, {NoDev})
                   = (IF mixedSession = {} THEN 0 ELSE 1)
              /\ \A i \in DOMAIN calls' :
                    calls'[i].op \in {"stop_capture", "stop_microphone_capture",
                                      "disable_mixed_recording"}]_vars

\* Stop-all run with the system and the microphone slot occupied, both engine
\* stops failing.
C25_Witness ==
    /\ last.script = "stopAllRecordings"
    /\ Len(calls) = 2
    /\ calls[1].op = "stop_capture" /\ ~calls[1].ok
    /\ calls[2].op = "stop_microphone_capture" /\ ~calls[2].ok
    /\ 0 \in eng.caps
    /\ eng.mics # {}
    /\ processSession = {} /\ systemSession = {}
    /\ microphoneSession = {} /\ mixedSession = {}

\* The calls MixedRecorderSession.stop issued once initialize() had returned
\* the runtime, for a handle that counts as having a device id when HasId.
MixedStopIssued(HasId) ==
    LET cs == AfterInit(calls)
        n  == IF HasId THEN 3 ELSE 2
    IN  /\ last.err = "ok"
        /\ Len(cs) = n
        /\ cs[1] = disable_mixed_recording
        /\ HasId => /\ cs[2].op = "stop_microphone_capture"
                    /\ cs[2].dev = last.input_device_id
        /\ cs[n].op = "stop_capture"
        /\ cs[n].pid = last.pid

MixedStopRan == last.script = "stop_mixed" /\ last.err \notin {"load_dll", "initialize"}

\* C26: the stop of a mixed session issues, in this order, the disabling of
\* the mixed output, the stop of the microphone capture when the handle has a
\* device id, and the stop of the source capture; the source stop is issued
\* whatever the microphone stop returned, and no stop failure is raised.
C26_MixedStopOrder ==
    MixedStopRan => MixedStopIssued(last.input_device_id # NoneV)

\* The same with the handle's device id taken as the code takes it, by
\* truthiness: the order holds for every id but the empty string.
C26_MixedStopOrderForNonEmptyId ==
    MixedStopRan => MixedStopIssued(Truthy(last.input_device_id))

MicrophoneOps == {"list_input_devices", "start_microphone_capture", "stop_microphone_capture"}

\* C27: start_mixed_recorder called with include_microphone false issues no
\* device listing and no microphone start, also when it fails and rolls back;
\* the handle it returns has no microphone device id; and neither its
\* rollback nor the stop of that handle issues a microphone stop.
C27_NoMicrophoneUnlessIncluded ==
    /\ (last.script = "start_mixed_recorder" /\ ~last.include_microphone)
         => /\ \A i \in DOMAIN calls : calls[i].op \notin MicrophoneOps
            /\ last.outcome = "returned"
                 => held = {MixedRecorderSession(last.pid, NoneV)}
    /\ (last.script = "stop_mixed" /\ last.input_device_id = NoneV)
         => \A i \in DOMAIN calls : calls[i].op \notin MicrophoneOps

\* A start without microphone whose mixed output fails: the rollback stops
\* the source capture and nothing else.
C27_Witness ==
    /\ last.script = "start_mixed_recorder"
    /\ ~last.include_microphone
    /\ last.err = "enable_mixed_recording"
    /\ Len(calls) = 3
    /\ calls[1].op = "start_capture" /\ calls[1].ok
    /\ calls[2].op = "enable_mixed_recording" /\ ~calls[2].ok
    /\ calls[3].op = "stop_capture"

\* The stop of a session started without microphone.
C27_WitnessStop ==
    /\ last.script = "stop_mixed"
    /\ last.input_device_id = NoneV
    /\ last.err = "ok"
    /\ Len(calls) = 2
    /\ calls[1] = disable_mixed_recording
    /\ calls[2].op = "stop_capture"

EngineStops == {"stop_capture", "stop_microphone_capture", "disable_mixed_recording"}

\* C28: terminate attempts the stop of every occupied slot, and issues every
\* such call before the engine's shutdown, which it issues last when the
\* plug-in holds the runtime; afterwards the four slots are empty and the
\* plug-in holds no runtime, whatever the stops returned.
C28_TerminateStopsThenShutsDown ==
    [][last'.script = "terminate"
       => /\ processSession' = {} /\ systemSession' = {}
          /\ microphoneSession' = {} /\ mixedSession' = {}
          /\ mlr' = FALSE
          /\ systemSession # {}
               => Attempts(calls', "stop_capture", {0}, {NoDev}) >= 1
          /\ processSession # {}
               => Attempts(calls', "stop_capture",
                           {Only(processSession).process_id}, {NoDev}) >= 1
          /\ microphoneSession # {}
               => Attempts(calls', "stop_microphone_capture", {NoPid},
                           {Only(microphoneSession).device_id}) = 1
          /\ mixedSession # {}
               => /\ Attempts(calls', "disable_mixed_recording", {NoPid}, {NoDev}) = 1
                  /\ Attempts(calls', "stop_capture",
                              {Only(mixedSession).process_id}, {NoDev}) >= 1
          /\ Attempts(calls', "shutdown", {NoPid}, {NoDev}) = (IF mlr THEN 1 ELSE 0)
          /\ \A i \in DOMAIN calls' :
                /\ calls'[i].op \in EngineStops \cup {"shutdown"}
                /\ calls'[i].op = "shutdown" => i = Len(calls')
          /\ mlr => runtime' = {} /\ eng' = EngineOff]_vars

\* terminate with the system and the microphone slot occupied, the system
\* stop failing: both stops, then shutdown.
C28_Witness ==
    /\ last.script = "terminate"
    /\ terminated
    /\ Len(calls) = 3
    /\ calls[1] = stop_capture(0, FALSE)
    /\ calls[2].op = "stop_microphone_capture"
    /\ calls[3] = shutdown_call
    /\ ~mlr
    /\ processSession = {} /\ systemSession = {}
    /\ microphoneSession = {} /\ mixedSession = {}

\* The scripts that stop the slot of each kind.
StoppersOf(kind) ==
    {"stopActiveRecording", "stopAllRecordings", "terminate"}
    \cup CASE kind = "process" -> {"toggleFocusedProcessRecording"}
           [] kind = "microphone" -> {"toggleMicrophoneRecording"}
           [] kind = "system" -> {"toggleSystemRecording"}
           [] kind = "mixed" -> {"toggleMixedRecording", "toggleSystemMixedRecording"}

\* This step empties an occupied slot, or changes what a slot holds, through
\* a script that is none of the slot's stops (or starts, for a change).
EmptiedBy(slot, slotAfter, kind, Exempt) ==
    /\ (slot # {} /\ slotAfter = {})
         => last'.script \in StoppersOf(kind) \cup Exempt
    /\ last'.script \in {"reportStatus", "commandLayer", "error"} \ Exempt
         => slotAfter = slot

OccupancyKept(Exempt) ==
    /\ EmptiedBy(processSession, processSession', "process", Exempt)
    /\ EmptiedBy(microphoneSession, microphoneSession', "microphone", Exempt)
    /\ EmptiedBy(systemSession, systemSession', "system", Exempt)
    /\ EmptiedBy(mixedSession, mixedSession', "mixed", Exempt)

\* C29: an occupied slot becomes empty only through a stop of that slot (its
\* toggle, stop-active, stop-all or terminate); the status report, the
\* command layer's key and the invalid-key handler leave every slot as it was.
C29_SlotEmptiedOnlyByItsStop == [][OccupancyKept({})]_vars

\* The same with the invalid-key handler set aside: every other operation
\* keeps to it.
C29_SlotEmptiedOnlyByItsStopOrInvalidKey ==
    [][OccupancyKept({"error", "commandLayer"})]_vars

\* Every capture the engine holds belongs to an occupied slot.
Covered ==
    LET Holds(slot, p) == slot # {} /\ Only(slot).process_id = p
    IN  /\ eng.mixed => mixedSession # {}
        /\ 0 \in eng.caps => systemSession # {} \/ Holds(mixedSession, 0)
        /\ \A p \in eng.caps \ {0} : Holds(processSession, p) \/ Holds(mixedSession, p)
        /\ eng.mics # {} => microphoneSession # {} \/ mixedSession # {}

\* C30: as long as no engine stop call has failed, the engine's active
\* captures are covered by the table: mixed output only with the mixed slot
\* occupied, a capture of pid 0 only with the system slot or a system-source
\* mixed slot occupied, a capture of pid p > 0 only with the process or the
\* mixed slot holding p, a microphone capture only with the microphone or the
\* mixed slot occupied.
C30_CapturesCoveredByTable == ~stop_failed => Covered

\* C31: initialize() returns a runtime only if the engine's initialize
\* succeeded on it since it was created: a runtime is retained only once its
\* engine is initialized, a failed engine initialize leaves no runtime behind,
\* and a call of initialize() that returns finds the engine initialized.
C31_RuntimeRetainedOnlyIfInitialized ==
    /\ runtime # {} => eng.init
    /\ last.err = "initialize" => runtime = {}
    /\ (last.script = "initialize" /\ last.outcome = "returned") => eng.init

\* The plug-in's side of it: _ensureRuntime answers True, and keeps the
\* package, only over an initialized engine.
C31_PluginRuntimeInitialized == mlr => eng.init

\* The microphone capture a mixed session started on device d has its stop
\* issued: by the rollback when the start fails after it, by the session's
\* stop when the handle holds d.
MicrophoneStopIssued(Ids) ==
    /\ (last.script = "start_mixed_recorder" /\ last.outcome = "raised")
         => \A i \in DOMAIN calls :
               (calls[i].op = "start_microphone_capture" /\ calls[i].ok
                  /\ calls[i].dev \in Ids)
               => \E j \in DOMAIN calls :
                     /\ j > i
                     /\ calls[j].op = "stop_microphone_capture"
                     /\ calls[j].dev = calls[i].dev
    /\ (last.script = "stop_mixed" /\ last.err = "ok" /\ last.input_device_id \in Ids)
         => \E j \in DOMAIN calls :
               /\ calls[j].op = "stop_microphone_capture"
               /\ calls[j].dev = last.input_device_id

\* C32: the microphone capture a mixed session started is stopped by that
\* session's rollback and by that session's stop, for every device id the
\* resolver can return, the empty string included.
C32_MixedMicrophoneAlwaysStopped == MicrophoneStopIssued(DeviceIds)

\* The same for the ids that are not the empty string.
C32_MixedMicrophoneStoppedForNonEmptyId == MicrophoneStopIssued(DeviceIds \ {""})

\* Where a thread stands when its next step is an engine start or stop call
\* on the runtime initialize() returned to it.
EngineCallPcs ==
    {"start_capture", "stop_capture", "mixed_source", "mixed_enable", "mixed_rollback"}

\* C33: however shutdown() interleaves with a start or a stop running in
\* another thread, no engine start or stop call is issued on a runtime whose
\* engine shutdown has already been invoked.
C33_NoCallAfterShutdown ==
    [][\A t \in Threads :
          (threads[t].pc \in EngineCallPcs /\ threads'[t] # threads[t])
          => created[threads[t].rt].shutdowns = 0]_vars

\* C34: the recorded last-process pid is set exactly when the process slot is
\* occupied, and when set it is the pid of the handle the process slot holds.
C34_LastProcessPidIffProcessSlot ==
    /\ lastProcessPid # {} <=> processSession # {}
    /\ processSession # {} => lastProcessPid = {Only(processSession).process_id}

=============================================================================
